---- MODULE Spec2Model ----
(***************************************************************************)
(* A model of the WhatsApp course assistant of main.py: the sheet cache,   *)
(* the per-sender session memory, the message-understanding functions and  *)
(* the webhook's decision flow.                                            *)
(*                                                                         *)
(* Text is modelled character by character: a Python str is a sequence of  *)
(* one-character strings, so that substring tests, folding, tokenising and *)
(* the regular expressions of the source are computed, not assumed.        *)
(***************************************************************************)
EXTENDS Integers, Sequences, FiniteSets, TLC

\* ---------------------------------------------------------------- bounds
\* How many times the clock may advance in one behaviour.
MaxTicks == 2
\* How many requests the concurrent specification starts.
MaxRequests == 2

\* ------------------------------------------------------ program constants
CACHE_SECONDS == 300
SESSION_TTL == 3600

\* --------------------------------------------------------- python strings
ASCII_UPPER == <<"A","B","C","D","E","F","G","H","I","J","K","L","M","N","O","P","Q","R","S","T","U","V","W","X","Y","Z">>
ASCII_LOWER == <<"a","b","c","d","e","f","g","h","i","j","k","l","m","n","o","p","q","r","s","t","u","v","w","x","y","z">>
DIGITS == {"0","1","2","3","4","5","6","7","8","9"}
\* Precomposed accented letters, and each one's base letter (what is left of
\* its canonical decomposition once the combining mark is dropped).
ACCENTED_UPPER == <<"Á","É","Í","Ó","Ú","Ñ","Ü">>
ACCENTED_LOWER == <<"á","é","í","ó","ú","ñ","ü">>
ACCENT_BASE == <<"a","e","i","o","u","n","u">>
WHITESPACE == {" ", "\n", "\t", "\r"}
Range(f) == {f[i] : i \in DOMAIN f}
\* A value under a name: With(e, LAMBDA x : ...) reads "let x be e in ...", and
\* e is evaluated once.
With(value, Body(_)) == CHOOSE result \in {Body(x) : x \in {value}} : TRUE
LOWER_LETTERS == Range(ASCII_LOWER)
Min(S) == CHOOSE x \in S : \A y \in S : x <= y
Max(S) == CHOOSE x \in S : \A y \in S : x >= y
IndexOf(seq, c) == CHOOSE i \in DOMAIN seq : seq[i] = c

\* str.lower() of one character.
lower_char(c) ==
  IF c \in Range(ASCII_UPPER) THEN ASCII_LOWER[IndexOf(ASCII_UPPER, c)]
  ELSE IF c \in Range(ACCENTED_UPPER) THEN ACCENTED_LOWER[IndexOf(ACCENTED_UPPER, c)]
  ELSE c
lower(s) == [i \in DOMAIN s |-> lower_char(s[i])]
\* NFD followed by dropping the combining marks, for one character.
strip_mark(c) ==
  IF c \in Range(ACCENTED_LOWER) THEN ACCENT_BASE[IndexOf(ACCENTED_LOWER, c)] ELSE c
_fold(s) == [i \in DOMAIN s |-> strip_mark(lower_char(s[i]))]

\* `k in text` of two strs.
In(k, text) ==
  \E i \in 0..(Len(text) - Len(k)) : \A j \in 1..Len(k) : text[i + j] = k[j]
\* text.startswith(p), from index i (1-based) on.
StartsAt(text, i, p) ==
  /\ i + Len(p) - 1 <= Len(text)
  /\ \A j \in 1..Len(p) : text[i + j - 1] = p[j]
startswith(text, p) == StartsAt(text, 1, p)
\* s.strip(chars)
strip_chars(s, chars) ==
  LET keep == {i \in DOMAIN s : s[i] \notin chars}
  IN IF keep = {} THEN <<>> ELSE SubSeq(s, Min(keep), Max(keep))
strip(s) == strip_chars(s, WHITESPACE)
\* re.findall('[cls]+', s): the maximal runs of characters of cls, in order.
RECURSIVE findall_from(_, _, _)
findall_from(cls, s, i) ==
  IF i > Len(s) THEN <<>>
  ELSE IF s[i] \notin cls THEN findall_from(cls, s, i + 1)
  ELSE LET j == Min({k \in i..Len(s) : k = Len(s) \/ s[k + 1] \notin cls})
       IN <<SubSeq(s, i, j)>> \o findall_from(cls, s, j + 1)
findall(cls, s) == findall_from(cls, s, 1)
\* re.split('[seps]+', s) without its empty pieces: the maximal runs of
\* characters that are no separator.
RECURSIVE split_from(_, _, _)
split_from(seps, s, i) ==
  IF i > Len(s) THEN <<>>
  ELSE IF s[i] \in seps THEN split_from(seps, s, i + 1)
  ELSE LET j == Min({k \in i..Len(s) : k = Len(s) \/ s[k + 1] \in seps})
       IN <<SubSeq(s, i, j)>> \o split_from(seps, s, j + 1)
split_nonempty(seps, s) == split_from(seps, s, 1)
\* [x for x in seq if keep(x)] for a set `keep` of accepted values.
RECURSIVE SelectIn(_, _)
SelectIn(seq, keep) ==
  IF seq = <<>> THEN <<>>
  ELSE (IF Head(seq) \in keep THEN <<Head(seq)>> ELSE <<>>) \o SelectIn(Tail(seq), keep)

_has_any(text, keywords) == \E i \in DOMAIN keywords : In(keywords[i], text)

\* ------------------------------------------------------------ the tables
EXPECTED_HEADERS ==
  <<<<"C","u","r","s","o">>, <<"T","e","x","t","o"," ","P","r","i","n","c","i","p","a","l">>, <<"L","i","n","k"," ","P","D","F">>, <<"F","e","c","h","a"," ","d","e"," ","I","n","i","c","i","o">>,
    <<"F","e","c","h","a","s"," ","d","e"," ","c","l","a","s","e","s">>, <<"D","u","r","a","c","i","ó","n">>, <<"H","o","r","a","r","i","o","s">>, <<"I","n","s","c","r","i","p","c","i","ó","n"," ","A","r","g","e","n","t","i","n","a">>,
    <<"I","n","s","c","r","i","p","c","i","ó","n"," ","B","o","l","i","v","i","a">>, <<"I","n","s","c","r","i","p","c","i","ó","n"," ","C","h","i","l","e">>, <<"I","n","s","c","r","i","p","c","i","ó","n"," ","C","o","l","o","m","b","i","a">>, <<"I","n","s","c","r","i","p","c","i","ó","n"," ","C","o","s","t","a"," ","R","i","c","a">>,
    <<"I","n","s","c","r","i","p","c","i","ó","n"," ","M","é","x","i","c","o">>, <<"I","n","s","c","r","i","p","c","i","ó","n"," ","P","a","r","a","g","u","a","y">>, <<"I","n","s","c","r","i","p","c","i","ó","n"," ","P","e","r","ú">>, <<"I","n","s","c","r","i","p","c","i","ó","n"," ","U","r","u","g","u","a","y">>,
    <<"I","n","s","c","r","i","p","c","i","ó","n"," ","R","e","s","t","o"," ","P","a","í","s","e","s">>, <<"F","A","Q">>>>
HEADER_SYNONYMS == <<<<<<"V","a","l","o","r"," ","I","n","s","c","r","i","p","c","i","ó","n"," ","U","r","u","g","u","a","y">>, <<"I","n","s","c","r","i","p","c","i","ó","n"," ","U","r","u","g","u","a","y">>>>>>
REST_COLUMN == <<"I","n","s","c","r","i","p","c","i","ó","n"," ","R","e","s","t","o"," ","P","a","í","s","e","s">>
\* Dictionaries keep their insertion order: a sequence of <<key, value>>.
COUNTRY_PRICE_COLUMN ==
  <<<<<<"5","0","6">>, <<"I","n","s","c","r","i","p","c","i","ó","n"," ","C","o","s","t","a"," ","R","i","c","a">>>>,
    <<<<"5","9","8">>, <<"I","n","s","c","r","i","p","c","i","ó","n"," ","U","r","u","g","u","a","y">>>>,
    <<<<"5","9","5">>, <<"I","n","s","c","r","i","p","c","i","ó","n"," ","P","a","r","a","g","u","a","y">>>>,
    <<<<"5","9","1">>, <<"I","n","s","c","r","i","p","c","i","ó","n"," ","B","o","l","i","v","i","a">>>>,
    <<<<"5","4">>, <<"I","n","s","c","r","i","p","c","i","ó","n"," ","A","r","g","e","n","t","i","n","a">>>>,
    <<<<"5","6">>, <<"I","n","s","c","r","i","p","c","i","ó","n"," ","C","h","i","l","e">>>>,
    <<<<"5","7">>, <<"I","n","s","c","r","i","p","c","i","ó","n"," ","C","o","l","o","m","b","i","a">>>>,
    <<<<"5","2">>, <<"I","n","s","c","r","i","p","c","i","ó","n"," ","M","é","x","i","c","o">>>>,
    <<<<"5","1">>, <<"I","n","s","c","r","i","p","c","i","ó","n"," ","P","e","r","ú">>>>>>
COUNTRY_WORD_TO_COL ==
  <<<<<<"a","r","g","e","n","t","i","n","a">>, <<"I","n","s","c","r","i","p","c","i","ó","n"," ","A","r","g","e","n","t","i","n","a">>>>,
    <<<<"b","o","l","i","v","i","a">>, <<"I","n","s","c","r","i","p","c","i","ó","n"," ","B","o","l","i","v","i","a">>>>,
    <<<<"c","h","i","l","e">>, <<"I","n","s","c","r","i","p","c","i","ó","n"," ","C","h","i","l","e">>>>,
    <<<<"c","o","l","o","m","b","i","a">>, <<"I","n","s","c","r","i","p","c","i","ó","n"," ","C","o","l","o","m","b","i","a">>>>,
    <<<<"c","o","s","t","a"," ","r","i","c","a">>, <<"I","n","s","c","r","i","p","c","i","ó","n"," ","C","o","s","t","a"," ","R","i","c","a">>>>,
    <<<<"m","e","x","i","c","o">>, <<"I","n","s","c","r","i","p","c","i","ó","n"," ","M","é","x","i","c","o">>>>,
    <<<<"m","é","x","i","c","o">>, <<"I","n","s","c","r","i","p","c","i","ó","n"," ","M","é","x","i","c","o">>>>,
    <<<<"p","a","r","a","g","u","a","y">>, <<"I","n","s","c","r","i","p","c","i","ó","n"," ","P","a","r","a","g","u","a","y">>>>,
    <<<<"p","e","r","u">>, <<"I","n","s","c","r","i","p","c","i","ó","n"," ","P","e","r","ú">>>>,
    <<<<"p","e","r","ú">>, <<"I","n","s","c","r","i","p","c","i","ó","n"," ","P","e","r","ú">>>>,
    <<<<"u","r","u","g","u","a","y">>, <<"I","n","s","c","r","i","p","c","i","ó","n"," ","U","r","u","g","u","a","y">>>>,
    <<<<"r","e","s","t","o">>, <<"I","n","s","c","r","i","p","c","i","ó","n"," ","R","e","s","t","o"," ","P","a","í","s","e","s">>>>>>
STOPWORDS_ES ==
  {<<"a">>, <<"a","d","o","n","d","e">>, <<"a","l">>, <<"a","n","t","e">>, <<"b","a","j","o">>, <<"c","a","b","e">>, <<"c","o","m","o">>, <<"c","o","n">>,
   <<"c","o","n","t","r","a">>, <<"c","u","a","l">>, <<"c","u","a","l","e">>, <<"c","u","a","l","e","s">>, <<"c","u","a","n","d","o">>, <<"c","u","a","n","t","o">>, <<"c","u","a","n","t","o","s">>, <<"d","e">>,
   <<"d","e","l">>, <<"d","e","s","d","e">>, <<"d","o","n","d","e">>, <<"d","u","r","a","n","t","e">>, <<"e","l">>, <<"e","n">>, <<"e","n","t","r","e">>, <<"e","r","a">>,
   <<"e","r","a","n">>, <<"e","r","e","s">>, <<"e","s">>, <<"e","s","a">>, <<"e","s","a","s">>, <<"e","s","e">>, <<"e","s","o","s">>, <<"e","s","t","a">>,
   <<"e","s","t","a","m","o","s">>, <<"e","s","t","a","n">>, <<"e","s","t","a","r">>, <<"e","s","t","a","s">>, <<"e","s","t","e">>, <<"e","s","t","o","s">>, <<"e","s","t","o","y">>, <<"f","u","e">>,
   <<"f","u","e","r","o","n">>, <<"h","a","c","i","a">>, <<"h","a","s","t","a">>, <<"h","a","y">>, <<"l","a">>, <<"l","a","s">>, <<"l","e">>, <<"l","e","s">>,
   <<"l","o">>, <<"l","o","s">>, <<"m","e","d","i","a","n","t","e">>, <<"n","o">>, <<"o">>, <<"p","a","r","a">>, <<"p","o","r">>, <<"q","u","e">>,
   <<"q","u","i","e","n">>, <<"q","u","i","e","n","e","s">>, <<"s","e","g","u","n">>, <<"s","e","g","ú","n">>, <<"s","e","r">>, <<"s","i">>, <<"s","i","n">>, <<"s","o">>,
   <<"s","o","b","r","e">>, <<"s","o","m","o","s">>, <<"s","o","n">>, <<"s","o","y">>, <<"t","r","a","s">>, <<"u">>, <<"u","n">>, <<"u","n","a">>,
   <<"u","n","a","s">>, <<"u","n","o","s">>, <<"y">>, <<"y","a">>}
TOKEN_SYNONYMS ==
  <<<<<<"g","r","a","b","a","d","a">>, <<"g","r","a","b","a","d","a","s">>>>, <<<<"g","r","a","b","a","d","a","s">>, <<"g","r","a","b","a","d","a","s">>>>, <<<<"g","r","a","b","a","d","o">>, <<"g","r","a","b","a","d","a","s">>>>,
    <<<<"g","r","a","b","a","d","o","s">>, <<"g","r","a","b","a","d","a","s">>>>, <<<<"g","r","a","b","a","c","i","o","n">>, <<"g","r","a","b","a","d","a","s">>>>, <<<<"g","r","a","b","a","c","i","o","n","e","s">>, <<"g","r","a","b","a","d","a","s">>>>,
    <<<<"r","e","p","e","t","i","c","i","o","n">>, <<"g","r","a","b","a","d","a","s">>>>, <<<<"r","e","p","e","t","i","c","i","o","n","e","s">>, <<"g","r","a","b","a","d","a","s">>>>, <<<<"o","n","d","e","m","a","n","d">>, <<"g","r","a","b","a","d","a","s">>>>,
    <<<<"d","e","m","a","n","d">>, <<"g","r","a","b","a","d","a","s">>>>, <<<<"d","e","s","p","u","e","s">>, <<"g","r","a","b","a","d","a","s">>>>, <<<<"c","o","s","t","o">>, <<"p","r","e","c","i","o">>>>,
    <<<<"v","a","l","o","r">>, <<"p","r","e","c","i","o">>>>, <<<<"a","r","a","n","c","e","l">>, <<"p","r","e","c","i","o">>>>, <<<<"i","n","v","e","r","s","i","o","n">>, <<"p","r","e","c","i","o">>>>,
    <<<<"p","a","g","o">>, <<"p","r","e","c","i","o">>>>, <<<<"h","o","r","a">>, <<"h","o","r","a","r","i","o","s">>>>, <<<<"c","r","o","n","o","g","r","a","m","a">>, <<"h","o","r","a","r","i","o","s">>>>,
    <<<<"m","e","t","o","d","o","l","o","g","i","a">>, <<"m","e","t","o","d","o","l","o","g","i","a">>>>, <<<<"m","e","t","o","d","o">>, <<"m","e","t","o","d","o","l","o","g","i","a">>>>, <<<<"t","i","t","u","l","o">>, <<"t","i","t","u","l","o">>>>,
    <<<<"l","i","c","e","n","c","i","a">>, <<"l","i","c","e","n","c","i","a">>>>, <<<<"c","e","r","t","i","f","i","c","a","c","i","o","n">>, <<"c","e","r","t","i","f","i","c","a","d","o">>>>, <<<<"c","e","r","t","i","f","i","c","a","d","o","s">>, <<"c","e","r","t","i","f","i","c","a","d","o">>>>,
    <<<<"c","e","r","t","i","f","i","c","a","d","o">>, <<"c","e","r","t","i","f","i","c","a","d","o">>>>, <<<<"d","o","c","e","n","t","e">>, <<"d","o","c","e","n","t","e","s">>>>, <<<<"d","o","c","e","n","t","e","s">>, <<"d","o","c","e","n","t","e","s">>>>,
    <<<<"p","r","o","f","e","s","o","r">>, <<"d","o","c","e","n","t","e","s">>>>, <<<<"p","r","o","f","e","s","o","r","e","s">>, <<"d","o","c","e","n","t","e","s">>>>, <<<<"p","l","a","t","a","f","o","r","m","a">>, <<"p","l","a","t","a","f","o","r","m","a">>>>,
    <<<<"m","a","t","e","r","i","a","l">>, <<"m","a","t","e","r","i","a","l","e","s">>>>, <<<<"m","a","t","e","r","i","a","l","e","s">>, <<"m","a","t","e","r","i","a","l","e","s">>>>, <<<<"v","i","d","e","o","s">>, <<"m","a","t","e","r","i","a","l","e","s">>>>,
    <<<<"p","r","e","s","e","n","t","a","c","i","o","n","e","s">>, <<"m","a","t","e","r","i","a","l","e","s">>>>, <<<<"l","i","b","r","o","s">>, <<"m","a","t","e","r","i","a","l","e","s">>>>, <<<<"g","u","i","a","s">>, <<"m","a","t","e","r","i","a","l","e","s">>>>,
    <<<<"p","l","a","n","i","l","l","a","s">>, <<"m","a","t","e","r","i","a","l","e","s">>>>, <<<<"r","e","q","u","i","s","i","t","o","s">>, <<"r","e","q","u","i","s","i","t","o","s">>>>, <<<<"d","i","r","i","g","i","d","o">>, <<"d","i","r","i","g","i","d","o">>>>,
    <<<<"a","u","d","i","o">>, <<"a","u","d","i","o">>>>, <<<<"a","u","d","i","o","s">>, <<"a","u","d","i","o">>>>, <<<<"v","o","z">>, <<"a","u","d","i","o">>>>>>
INTENTS ==
  [info |-> <<<<"i","n","f","o">>, <<"i","n","f","o","r","m","a","c","i","o","n">>, <<"i","n","f","o","r","m","a","c","i","ó","n">>, <<"m","a","s"," ","i","n","f","o">>, <<"m","á","s"," ","i","n","f","o">>, <<"d","e","t","a","l","l","e","s">>, <<"f","i","c","h","a">>, <<"s","o","b","r","e"," ","e","l"," ","c","u","r","s","o">>>>,
   price |-> <<<<"p","r","e","c","i","o">>, <<"c","o","s","t","o">>, <<"v","a","l","o","r">>, <<"a","r","a","n","c","e","l">>, <<"i","n","v","e","r","s","i","o","n">>, <<"i","n","v","e","r","s","i","ó","n">>, <<"i","n","s","c","r","i","p">>, <<"c","u","a","n","t","o">>, <<"c","u","á","n","t","o">>, <<"v","a","l","e">>, <<"p","a","g","o">>>>,
   schedule |-> <<<<"h","o","r","a","r","i","o">>, <<"h","o","r","a","r","i","o","s">>, <<"h","o","r","a">>, <<"c","r","o","n","o","g","r","a","m","a">>>>,
   modality |-> <<<<"m","o","d","a","l","i","d","a","d">>, <<"o","n","l","i","n","e">>, <<"v","i","r","t","u","a","l">>, <<"e","n"," ","v","i","v","o">>, <<"z","o","o","m">>, <<"m","e","e","t">>, <<"v","i","d","e","o","c","o","n","f","e","r","e","n","c","i","a">>>>,
   methodology |-> <<<<"m","e","t","o","d","o","l","o","g","i","a">>, <<"m","e","t","o","d","o","l","o","g","í","a">>, <<"m","e","t","o","d","o">>, <<"m","é","t","o","d","o">>, <<"c","o","m","o"," ","s","e"," ","c","u","r","s","a">>, <<"c","ó","m","o"," ","s","e"," ","c","u","r","s","a">>>>,
   start |-> <<<<"i","n","i","c","i","o">>, <<"e","m","p","i","e","z","a">>, <<"e","m","p","i","e","z","a","n">>, <<"f","e","c","h","a"," ","d","e"," ","i","n","i","c","i","o">>>>,
   dates |-> <<<<"f","e","c","h","a","s">>, <<"c","a","l","e","n","d","a","r","i","o">>, <<"c","r","o","n","o","g","r","a","m","a">>>>,
   duration |-> <<<<"d","u","r","a","c","i","o","n">>, <<"d","u","r","a","c","i","ó","n">>, <<"d","u","r","a">>, <<"c","a","r","g","a"," ","h","o","r","a","r","i","a">>, <<"h","o","r","a","s">>>>,
   pdf |-> <<<<"p","d","f">>, <<"b","r","o","c","h","u","r","e">>, <<"i","n","f","o","r","m","a","t","i","v","o">>, <<"d","o","s","s","i","e","r">>, <<"f","o","l","l","e","t","o">>>>,
   faq |-> <<<<"f","a","q">>, <<"p","r","e","g","u","n","t","a","s">>, <<"d","u","d","a","s">>, <<"c","o","n","s","u","l","t","a">>, <<"g","e","n","e","r","a","l">>>>,
   enroll |-> <<<<"m","e"," ","i","n","t","e","r","e","s","a">>, <<"q","u","i","e","r","o"," ","i","n","s","c","r","i","b","i","r","m","e">>, <<"i","n","s","c","r","i","b","i","r","m","e">>, <<"c","o","m","o"," ","m","e"," ","i","n","s","c","r","i","b","o">>, <<"c","ó","m","o"," ","m","e"," ","i","n","s","c","r","i","b","o">>, <<"q","u","i","e","r","o"," ","a","n","o","t","a","r","m","e">>, <<"q","u","i","e","r","o"," ","m","a","t","r","i","c","u","l","a","r","m","e">>>>,
   recordings |-> <<<<"g","r","a","b","a","d","a">>, <<"g","r","a","b","a","d","a","s">>, <<"g","r","a","b","a","c","i","o","n">>, <<"g","r","a","b","a","c","i","ó","n">>, <<"g","r","a","b","a","c","i","o","n","e","s">>, <<"r","e","p","e","t","i","c","i","o","n">>, <<"r","e","p","e","t","i","c","i","ó","n">>, <<"o","n"," ","d","e","m","a","n","d">>, <<"o","n","d","e","m","a","n","d">>, <<"v","e","r"," ","d","e","s","p","u","e","s">>, <<"v","e","r"," ","d","e","s","p","u","é","s">>, <<"q","u","e","d","a","n"," ","g","r","a","b","a","d","a","s">>>>]
GREETINGS ==
  <<<<"h","o","l","a">>, <<"b","u","e","n","a","s">>, <<"b","u","e","n","o","s"," ","d","i","a","s">>, <<"b","u","e","n","o","s"," ","d","í","a","s">>, <<"b","u","e","n","a","s"," ","t","a","r","d","e","s">>, <<"b","u","e","n","a","s"," ","n","o","c","h","e","s">>, <<"h","e","y">>, <<"q","u","e"," ","t","a","l">>, <<"q","u","é"," ","t","a","l">>>>
INTENT_NAMES == DOMAIN INTENTS

\* dict.get(key, default) on a sequence of pairs.
dict_get(d, key, default) ==
  IF \E i \in DOMAIN d : d[i][1] = key
  THEN d[CHOOSE i \in DOMAIN d : d[i][1] = key][2]
  ELSE default
_normalize_token(tok) == dict_get(TOKEN_SYNONYMS, tok, tok)

\* --------------------------------------------------------------- intents
\* re.search(r'precio\s+[a-záéíóúñ ]{3,}', body_lower)
PRECIO_TAIL == LOWER_LETTERS \cup {"á","é","í","ó","ú","ñ"," "}
re_precio_country(body_lower) ==
  \E i \in DOMAIN body_lower :
    /\ StartsAt(body_lower, i, <<"p","r","e","c","i","o">>)
    /\ \E w \in 1..Len(body_lower) :
         /\ i + 6 + w + 2 <= Len(body_lower)
         /\ \A k \in (i + 6)..(i + 6 + w - 1) : body_lower[k] \in WHITESPACE
         /\ \A k \in (i + 6 + w)..(i + 6 + w + 2) : body_lower[k] \in PRECIO_TAIL
classify_intents(body_lower) ==
  [k \in INTENT_NAMES |->
     \/ _has_any(body_lower, INTENTS[k])
     \/ (k = "price" /\ re_precio_country(body_lower))]
ENROLL_KEYS ==
  <<<<"m","e"," ","i","n","t","e","r","e","s","a">>, <<"q","u","i","e","r","o"," ","i","n","s","c","r","i","b","i","r","m","e">>, <<"i","n","s","c","r","i","b","i","r","m","e">>, <<"c","o","m","o"," ","m","e"," ","i","n","s","c","r","i","b","o">>, <<"c","ó","m","o"," ","m","e"," ","i","n","s","c","r","i","b","o">>, <<"q","u","i","e","r","o"," ","a","n","o","t","a","r","m","e">>, <<"q","u","i","e","r","o"," ","m","a","t","r","i","c","u","l","a","r","m","e">>>>
detect_intent_enroll(body_lower) == \E i \in DOMAIN ENROLL_KEYS : In(ENROLL_KEYS[i], body_lower)

\* An absent value (None in the source) is a sequence of no element, a present
\* one <<value>>.
None == <<>>
Some(x) == <<x>>
\* d[key] = val on a dict kept as a sequence of pairs.
dict_set(d, key, val) ==
  IF \E i \in DOMAIN d : d[i][1] = key
  THEN [d EXCEPT ![CHOOSE i \in DOMAIN d : d[i][1] = key] = <<key, val>>]
  ELSE Append(d, <<key, val>>)
\* s.lstrip(chars)
lstrip_chars(s, chars) ==
  LET keep == {i \in DOMAIN s : s[i] \notin chars}
  IN IF keep = {} THEN <<>> ELSE SubSeq(s, Min(keep), Len(s))

\* --------------------------------------------------- the published sheet
\* What the spreadsheet holds at different times: the header row and the
\* records of the CSV export, each record a cell per header.
BOM == "U+FEFF"
cells_of(headers, pairs) == [i \in DOMAIN headers |-> dict_get(pairs, headers[i], <<>>)]
sheet_of(headers, records) ==
  [headers |-> headers, records |-> [i \in DOMAIN records |-> cells_of(headers, records[i])]]
\* The export after the owner renamed a column to its synonym; the file starts
\* with a byte order mark.
renamed(headers) ==
  [i \in DOMAIN headers |->
     IF i = 1 THEN <<BOM>> \o headers[i]
     ELSE IF headers[i] = <<"I","n","s","c","r","i","p","c","i","ó","n"," ","U","r","u","g","u","a","y">> THEN <<"V","a","l","o","r"," ","I","n","s","c","r","i","p","c","i","ó","n"," ","U","r","u","g","u","a","y"," ">>
     ELSE headers[i]]
EXCEL_CELLS ==
  <<<<<<"C","u","r","s","o">>, <<" ","C","u","r","s","o"," ","d","e"," ","E","x","c","e","l"," ">>>>, <<<<"T","e","x","t","o"," ","P","r","i","n","c","i","p","a","l">>, <<"E","x","c","e","l"," ","&"," ","B","I">>>>,
    <<<<"L","i","n","k"," ","P","D","F">>, <<"x",".","c","o","/","e",".","p","d","f">>>>, <<<<"F","e","c","h","a"," ","d","e"," ","I","n","i","c","i","o">>, <<"5"," ","m","a","y","o">>>>,
    <<<<"D","u","r","a","c","i","ó","n">>, <<"8","h">>>>, <<<<"H","o","r","a","r","i","o","s">>, <<"L"," ","1","9","h">>>>,
    <<<<"I","n","s","c","r","i","p","c","i","ó","n"," ","A","r","g","e","n","t","i","n","a">>, <<"1","0","0"," ","U","S","D">>>>, <<<<"I","n","s","c","r","i","p","c","i","ó","n"," ","R","e","s","t","o"," ","P","a","í","s","e","s">>, <<"8","0"," ","U","S","D">>>>,
    <<<<"I","n","s","c","r","i","p","c","i","ó","n"," ","U","r","u","g","u","a","y">>, <<"9","0"," ","U","S","D">>>>,
    <<<<"F","A","Q">>, <<"S","i"," ","p","r","e","g","u","n","t","a","n",":"," ","d","a","n"," ","c","e","r","t","i","f","i","c","a","d","o","?"," ","/"," ","h","a","y"," ","d","i","p","l","o","m","a","\n","R","e","s","p","u","e","s","t","a",":"," ","S","i",","," ","d","i","g","i","t","a","l">>>>,
    <<<<"A","l","i","a","s">>, <<"x","l","s",";"," ","p","l","a","n","i","l","l","a">>>>>>
edited(cells) == dict_set(dict_set(cells, <<"I","n","s","c","r","i","p","c","i","ó","n"," ","A","r","g","e","n","t","i","n","a">>, <<"1","2","0"," ","U","S","D">>), <<"A","l","i","a","s">>, <<"x","l","s">>)
PYTHON_CELLS ==
  <<<<<<"C","u","r","s","o">>, <<"P","y","t","h","o","n">>>>, <<<<"T","e","x","t","o"," ","P","r","i","n","c","i","p","a","l">>, <<"A","p","r","e","n","d","e"," ","P","y","t","h","o","n">>>>,
    <<<<"I","n","s","c","r","i","p","c","i","ó","n"," ","R","e","s","t","o"," ","P","a","í","s","e","s">>, <<"5","0"," ","U","S","D">>>>,
    <<<<"F","A","Q">>, <<"S","i"," ","p","r","e","g","u","n","t","a","n",":"," ","h","a","y"," ","t","a","r","e","a","s","\n","R","e","s","p","u","e","s","t","a",":"," ","S","i",","," ","s","e","m","a","n","a","l","e","s","\n"," ","S","i"," ","p","r","e","g","u","n","t","a","n",":"," ","d","a","n"," ","c","e","r","t","i","f","i","c","a","d","o","\n","R","e","s","p","u","e","s","t","a",":"," ","S","i",","," ","i","m","p","r","e","s","o">>>>>>
UNTITLED_CELLS == <<<<<<"C","u","r","s","o">>, <<" "," ">>>>, <<<<"T","e","x","t","o"," ","P","r","i","n","c","i","p","a","l">>, <<"b","o","r","r","a","d","o","r">>>>>>
HOLA_CELLS == <<<<<<"C","u","r","s","o">>, <<"H","o","l","a"," ","M","u","n","d","o">>>>, <<<<"T","e","x","t","o"," ","P","r","i","n","c","i","p","a","l">>, <<"P","r","i","m","e","r","o","s"," ","p","a","s","o","s">>>>>>
sheets_with(headers, excel, untitled) ==
  [two_courses |-> sheet_of(headers, <<excel, untitled, PYTHON_CELLS>>),
   one_course |-> [sheet_of(headers, <<edited(excel)>>) EXCEPT !.headers = renamed(headers)],
   no_course |-> sheet_of(headers, <<untitled>>),
   hola_course |-> sheet_of(headers, <<HOLA_CELLS, PYTHON_CELLS>>),
   no_faq_header |-> sheet_of(SelectIn(headers, Range(headers) \ {<<"F","A","Q">>}), <<excel>>)]
SHEETS == sheets_with(EXPECTED_HEADERS \o <<<<"A","l","i","a","s">>>>, EXCEL_CELLS, UNTITLED_CELLS)
\* What a GET of the export can end in: a sheet, or no usable answer.
SOURCE_STATES == DOMAIN SHEETS \cup {"unreachable", "http_error"}


normalize_header(h) ==
  LET nk == lstrip_chars(strip(h), {BOM})
  IN dict_get(HEADER_SYNONYMS, nk, nk)
\* One record of the DictReader with its keys normalised and its values
\* stripped; a key that comes twice keeps its last value.
clean_row(headers, cells) ==
  [nk \in {normalize_header(headers[i]) : i \in DOMAIN headers} |->
     strip(cells[Max({i \in DOMAIN headers : normalize_header(headers[i]) = nk})])]
\* The dicts a fetch of each sheet builds. The cache, the alias index and the
\* sessions hold references to them: a row is <<sheet, record number>>.
dicts_of(sheets) ==
  [s \in DOMAIN sheets |->
     [i \in DOMAIN sheets[s].records |-> clean_row(sheets[s].headers, sheets[s].records[i])]]
ROW_DICTS == dicts_of(SHEETS)
\* row.get(key, '') and (row.get(key) or '').
get(row, key) ==
  With(ROW_DICTS[row[1]][row[2]], LAMBDA d : IF key \in DOMAIN d THEN d[key] ELSE <<>>)
\* The rows the loop of fetch_sheet_rows keeps: those with a course title.
RECURSIVE clean_rows(_, _)
clean_rows(source, i) ==
  IF i > Len(ROW_DICTS[source]) THEN <<>>
  ELSE (IF get(<<source, i>>, <<"C","u","r","s","o">>) # <<>> THEN <<<<source, i>>>> ELSE <<>>)
       \o clean_rows(source, i + 1)

\* What requests.get, raise_for_status and the header check end in.
fetch_error(source) ==
  IF source = "unreachable" THEN Some("ConnectionError")
  ELSE IF source = "http_error" THEN Some("HTTPError")
  ELSE IF \E i \in DOMAIN EXPECTED_HEADERS :
            EXPECTED_HEADERS[i] \notin {normalize_header(h) : h \in Range(SHEETS[source].headers)}
       THEN Some("ValueError") ELSE None

ALIAS_SEPARATORS == {"\n", ",", ";", "|", "/"}
RECURSIVE add_aliases(_, _, _)
add_aliases(idx, parts, r) ==
  IF parts = <<>> THEN idx
  ELSE add_aliases(IF strip(Head(parts)) = <<>> THEN idx
                   ELSE dict_set(idx, _fold(strip(Head(parts))), r),
                   Tail(parts), r)
RECURSIVE _rebuild_alias_index_from(_, _)
_rebuild_alias_index_from(idx, rows) ==
  IF rows = <<>> THEN idx
  ELSE With(strip(get(Head(rows), <<"A","l","i","a","s">>)), LAMBDA alias_cell :
         _rebuild_alias_index_from(
           IF alias_cell = <<>> THEN idx
           ELSE add_aliases(idx, split_nonempty(ALIAS_SEPARATORS, alias_cell), Head(rows)),
           Tail(rows)))
_rebuild_alias_index(rows) == _rebuild_alias_index_from(<<>>, rows)

RECURSIVE list_courses(_)
list_courses(rows) ==
  IF rows = <<>> THEN <<>>
  ELSE (IF get(Head(rows), <<"C","u","r","s","o">>) # <<>> THEN <<strip(get(Head(rows), <<"C","u","r","s","o">>))>> ELSE <<>>)
       \o list_courses(Tail(rows))

\* ------------------------------------------------------------ the inputs
\* The messages and the senders the webhook is driven with.
BODIES ==
  {<<>>, <<" ","H","o","l","a"," ">>, <<"q","u","i","e","r","o"," ","i","n","s","c","r","i","b","i","r","m","e">>, <<"m","e"," ","i","n","t","e","r","e","s","a"," ","e","l"," ","x","l","s">>, <<"P","y","t","h","o","n">>, <<"i","n","f","o"," ","e","x","c","e","l">>,
   <<"p","r","e","c","i","o"," ","e","x","c","e","l">>, <<"i","n","f","o"," ","p","r","e","c","i","o"," ","e","x","c","e","l">>, <<"h","o","r","a","r","i","o","s"," ","y"," ","p","d","f"," ","d","e"," ","e","x","c","e","l">>, <<"f","a","q"," ","p","r","e","c","i","o"," ","p","y","t","h","o","n">>,
   <<"h","o","r","a","r","i","o">>, <<"p","r","e","c","i","o">>, <<"i","n","f","o">>, <<"d","a","n"," ","c","e","r","t","i","f","i","c","a","d","o">>, <<"g","r","a","c","i","a","s">>,
   <<"p","r","e","c","i","o"," ","x","l","s">>, <<"i","n","s","c","r","i","b","i","r","m","e">>}
\* The messages of the requests that run together.
THREAD_BODIES == {<<"p","r","e","c","i","o"," ","x","l","s">>, <<"i","n","s","c","r","i","b","i","r","m","e">>}
SENDERS == {<<"w","h","a","t","s","a","p","p",":","+","5","4","9","1","1">>, <<"w","h","a","t","s","a","p","p",":","+","5","9","1","7","0">>}
\* Every value the handlers can hand to the text functions. The functions are
\* evaluated once for each and the handlers look the results up.
raised_by == [s \in SOURCE_STATES |-> fetch_error(s)]
FETCHABLE == {s \in DOMAIN SHEETS : raised_by[s] = None}
rows_fetched == [s \in FETCHABLE |-> clean_rows(s, 1)]
ROW_LISTS == {<<>>} \cup {rows_fetched[s] : s \in FETCHABLE}
ROWS == UNION {Range(rows) : rows \in ROW_LISTS}
stripped == [b \in BODIES |-> strip(b)]
TEXTS == {stripped[b] : b \in BODIES}
folded == [b \in TEXTS |-> _fold(b)]
FOLDED_TEXTS == {folded[b] : b \in TEXTS}
enroll_of == [b \in FOLDED_TEXTS |-> detect_intent_enroll(b)]
intents_of == [b \in FOLDED_TEXTS |-> classify_intents(b)]

\* ------------------------------------------------------- course matching
NAME_TOKEN_CLASS == LOWER_LETTERS \cup DIGITS \cup {"á","é","í","ó","ú","ñ"}
GENERIC_WORDS == {<<"c","u","r","s","o">>, <<"c","u","r","s","o","s">>}
name_words(s) ==
  {w \in Range(findall(NAME_TOKEN_CLASS, s)) : Len(w) >= 3 /\ w \notin GENERIC_WORDS}
\* The three passes of _best_row_by_query: a name holding the query, a name
\* held by the query, the most words in common (the first of the best).
name_of(row) == strip(get(row, <<"C","u","r","s","o">>))
name_tokens(row) == {_fold(w) : w \in name_words(lower(get(row, <<"C","u","r","s","o">>)))}
word_score(rows, q_fold) ==
  [i \in DOMAIN rows |-> Cardinality(name_words(q_fold) \cap name_tokens(rows[i]))]
_best_row_by_query(rows, q_fold) ==
  With({i \in DOMAIN rows : name_of(rows[i]) # <<>> /\ In(q_fold, _fold(name_of(rows[i])))},
       LAMBDA within :
  With({i \in DOMAIN rows : name_of(rows[i]) # <<>> /\ In(_fold(name_of(rows[i])), q_fold)},
       LAMBDA containing :
  With(word_score(rows, q_fold), LAMBDA score :
  With(IF rows = <<>> THEN 0 ELSE Max(Range(score)), LAMBDA best :
    IF within # {} THEN Some(rows[Min(within)])
    ELSE IF containing # {} THEN Some(rows[Min(containing)])
    ELSE IF best >= 1 THEN Some(rows[Min({i \in DOMAIN rows : score[i] = best})])
    ELSE None))))

\* re.search(r'(?:info|informacion|...)\s+(.+)$', q_fold): the text of group 1
\* of the leftmost match, or None.
FIND_KEYWORDS ==
  <<<<"i","n","f","o">>, <<"i","n","f","o","r","m","a","c","i","o","n">>, <<"i","n","f","o","r","m","a","c","i","ó","n">>, <<"p","r","e","c","i","o">>, <<"h","o","r","a","r","i","o">>, <<"h","o","r","a","r","i","o","s">>, <<"p","d","f">>,
    <<"m","o","d","a","l","i","d","a","d">>, <<"m","e","t","o","d","o","l","o","g","í","a">>, <<"m","e","t","o","d","o","l","o","g","i","a">>>>
keyword_rest_at(q, i) ==
  {rest \in {SubSeq(q, j, Len(q)) : j \in (i + 1)..Len(q)} :
     /\ rest[1] \notin WHITESPACE
     /\ "\n" \notin Range(rest)
     /\ \E kw \in Range(FIND_KEYWORDS) :
          /\ StartsAt(q, i, kw)
          /\ i + Len(kw) <= Len(q) - Len(rest)
          /\ \A g \in (i + Len(kw))..(Len(q) - Len(rest)) : q[g] \in WHITESPACE}
re_keyword_rest(q) ==
  With({i \in DOMAIN q : keyword_rest_at(q, i) # {}}, LAMBDA at :
    IF at = {} THEN None ELSE Some(CHOOSE rest \in keyword_rest_at(q, Min(at)) : TRUE))

\* find_course reads the alias index of the cache as it is when it runs.
find_course(alias_idx, rows, user_text) ==
  With(_fold(user_text), LAMBDA q_fold :
  With({i \in DOMAIN alias_idx : alias_idx[i][1] # <<>> /\ In(alias_idx[i][1], q_fold)},
       LAMBDA hits :
  With(re_keyword_rest(q_fold), LAMBDA m :
  With(IF m = None THEN None ELSE _best_row_by_query(rows, strip(m[1])),
       LAMBDA after_keyword :
    IF hits # {} THEN Some(alias_idx[Min(hits)][2])
    ELSE IF after_keyword # None THEN after_keyword
    ELSE _best_row_by_query(rows, q_fold)))))

\* ------------------------------------------------------ price by country
\* s.replace(old, ''): every occurrence, left to right.
RECURSIVE remove_all(_, _)
remove_all(s, old) ==
  LET at == {i \in DOMAIN s : StartsAt(s, i, old)}
  IN IF old = <<>> \/ at = {} THEN s
     ELSE SubSeq(s, 1, Min(at) - 1) \o remove_all(SubSeq(s, Min(at) + Len(old), Len(s)), old)
\* sorted(COUNTRY_PRICE_COLUMN.keys(), key=lambda p: -len(p)): a stable sort.
RECURSIVE by_length_desc(_, _)
by_length_desc(d, n) ==
  IF n = 0 THEN <<>>
  ELSE SelectIn(d, {e \in Range(d) : Len(e[1]) = n}) \o by_length_desc(d, n - 1)
guess_country_price_column(from_number) ==
  With(remove_all(remove_all(from_number, <<"w","h","a","t","s","a","p","p",":">>), <<"+">>), LAMBDA num :
  With(by_length_desc(COUNTRY_PRICE_COLUMN,
                      Max({Len(e[1]) : e \in Range(COUNTRY_PRICE_COLUMN)})),
       LAMBDA prefixes :
  With({i \in DOMAIN prefixes : startswith(num, prefixes[i][1])}, LAMBDA hit :
    IF hit # {} THEN prefixes[Min(hit)][2] ELSE REST_COLUMN)))
\* A variant that asks the sender's number first and the text only for numbers
\* of no listed country.
pick_price_column_sender_first(body_lower, from_number) ==
  With({i \in DOMAIN COUNTRY_WORD_TO_COL : In(COUNTRY_WORD_TO_COL[i][1], body_lower)},
       LAMBDA hit :
    IF guess_country_price_column(from_number) # REST_COLUMN \/ hit = {}
    THEN guess_country_price_column(from_number)
    ELSE COUNTRY_WORD_TO_COL[Min(hit)][2])
pick_price_column_from_text(body_lower, from_number) ==
  With({i \in DOMAIN COUNTRY_WORD_TO_COL : In(COUNTRY_WORD_TO_COL[i][1], body_lower)},
       LAMBDA hit :
    IF hit # {} THEN COUNTRY_WORD_TO_COL[Min(hit)][2]
    ELSE guess_country_price_column(from_number))

\* ------------------------------------------------------------------- FAQ
Q_MARK == <<"s","i"," ","p","r","e","g","u","n","t","a","n",":">>
A_MARK == <<"r","e","s","p","u","e","s","t","a",":">>
UTTERANCE_SEPARATORS == {"/", "\n"}
UTTERANCE_TRIM == WHITESPACE \cup {".", "?", "!", "¡", "¿"}
\* One match of the block pattern (re.S | re.I) starting at p: <<question
\* part, answer, where the match ends>>, or None.
faq_match_at(text, p) ==
  With(lower(text), LAMBDA low :
  With(Len(text), LAMBDA n :
  With(p + Len(Q_MARK), LAMBDA q0 :
  With(Min({i \in q0..n : text[i] \notin WHITESPACE} \cup {n + 1}), LAMBDA g :
  With({r \in (g + 1)..n : StartsAt(low, r, A_MARK) /\ r + Len(A_MARK) <= n}, LAMBDA marks :
  With(IF marks # {} THEN Min(marks)
       ELSE IF g > q0 /\ StartsAt(low, g, A_MARK) /\ g + Len(A_MARK) <= n THEN g
       ELSE 0, LAMBDA r :
  With(Min({i \in (r + Len(A_MARK))..n : text[i] \notin WHITESPACE} \cup {n}), LAMBDA a :
  With(Min({i \in (a + 1)..n :
              /\ text[i] = "\n"
              /\ \E k \in (i + 1)..n :
                   /\ StartsAt(low, k, Q_MARK)
                   /\ \A j \in (i + 1)..(k - 1) : text[j] \in WHITESPACE}
           \cup {n + 1}), LAMBDA f :
    IF ~StartsAt(low, p, Q_MARK) \/ r = 0 THEN None
    ELSE Some(<<strip(SubSeq(text, q0, r - 1)), strip(SubSeq(text, a, f - 1)), f>>)))))))))
RECURSIVE strip_each(_, _)
strip_each(seq, chars) ==
  IF seq = <<>> THEN <<>>
  ELSE (IF strip(Head(seq)) # <<>> THEN <<strip_chars(Head(seq), chars)>> ELSE <<>>)
       \o strip_each(Tail(seq), chars)
RECURSIVE faq_blocks_from(_, _)
faq_blocks_from(text, pos) ==
  With({p \in pos..Len(text) : faq_match_at(text, p) # None}, LAMBDA at :
    IF at = {} THEN <<>>
    ELSE With(faq_match_at(text, Min(at))[1], LAMBDA m :
         With(strip_each(split_nonempty(UTTERANCE_SEPARATORS, m[1]), UTTERANCE_TRIM),
              LAMBDA utterances :
           (IF utterances # <<>> /\ m[2] # <<>> THEN <<<<utterances, m[2]>>>> ELSE <<>>)
           \o faq_blocks_from(text, m[3]))))
_faq_parse_blocks(faq_text) ==
  IF faq_text = <<>> THEN <<>> ELSE faq_blocks_from(strip(faq_text), 1)

FAQ_TOKEN_CLASS == LOWER_LETTERS \cup DIGITS
RECURSIVE normalize_each(_)
normalize_each(toks) ==
  IF toks = <<>> THEN <<>> ELSE <<_normalize_token(Head(toks))>> \o normalize_each(Tail(toks))
_faq_tokens(s) ==
  With(findall(FAQ_TOKEN_CLASS, _fold(s)), LAMBDA all :
    normalize_each(SelectIn(all, {t \in Range(all) : Len(t) >= 3 /\ t \notin STOPWORDS_ES})))

\* Every (utterance, answer) pair of the blocks, in the order the loops visit them.
RECURSIVE faq_pairs(_)
faq_pairs(blocks) ==
  IF blocks = <<>> THEN <<>>
  ELSE [i \in DOMAIN Head(blocks)[1] |-> <<Head(blocks)[1][i], Head(blocks)[2]>>]
       \o faq_pairs(Tail(blocks))
\* The score of an utterance is overlap / max(1, len(utok)), kept as the pair
\* <<overlap, len>>; the thresholds 0.45 and 0.30 are compared in hundredths.
FAQ_ACCEPT_PCT == 45
FAQ_ACCEPT_PAIR_PCT == 30
\* best_score and best_answer after the loops: the first pair of the highest
\* score, 0 when no score is above 0.0. `utok` holds the token set of each pair.
faq_best(qtok, utok) ==
  With({i \in DOMAIN utok : utok[i] # {}}, LAMBDA scored :
  With({i \in scored :
          /\ Cardinality(qtok \cap utok[i]) > 0
          /\ \A j \in scored : Cardinality(qtok \cap utok[j]) * Cardinality(utok[i])
                                <= Cardinality(qtok \cap utok[i]) * Cardinality(utok[j])},
       LAMBDA top :
    IF top = {} THEN 0 ELSE Min(top)))
answer_from_faq(row, user_text) ==
  With(strip(get(row, <<"F","A","Q">>)), LAMBDA faq_text :
  With(faq_pairs(_faq_parse_blocks(faq_text)), LAMBDA pairs :
  With(Range(_faq_tokens(user_text)), LAMBDA qtok :
  With([i \in DOMAIN pairs |-> Range(_faq_tokens(pairs[i][1]))], LAMBDA utok :
  With(faq_best(qtok, utok), LAMBDA best :
    IF faq_text = <<>> \/ pairs = <<>> \/ qtok = {} \/ best = 0 THEN None
    ELSE With(Cardinality(qtok \cap utok[best]), LAMBDA overlap :
         With(Cardinality(utok[best]), LAMBDA size :
           IF \/ 100 * overlap >= FAQ_ACCEPT_PCT * size
              \/ (100 * overlap >= FAQ_ACCEPT_PAIR_PCT * size /\ Cardinality(qtok) >= 2)
           THEN Some(<<"C","l","a","r","o"," ","U+1F60A"," ">> \o pairs[best][2])
           ELSE None)))))))
faq_answer_of == [row \in ROWS, b \in FOLDED_TEXTS |-> answer_from_faq(row, b)]
RECURSIVE answer_from_faq_global(_, _)
answer_from_faq_global(rows, user_text) ==
  IF rows = <<>> THEN None
  ELSE IF faq_answer_of[Head(rows), user_text] # None THEN faq_answer_of[Head(rows), user_text]
  ELSE answer_from_faq_global(Tail(rows), user_text)

\* --------------------------------------------------------- configuration
\* The values the source takes when the environment sets none.
BRAND_NAME == <<"M","o","t","i","v","a"," ","E","d","u","c","a","c","i","ó","n">>
BOT_NAME == <<"M","o","t","i">>
ADVISOR_E164 == <<"+","5","9","1","6","2","7","2","3","9","4","4">>
ADVISOR_WA_LINK == <<"h","t","t","p","s",":","/","/","w","a",".","m","e","/">> \o remove_all(ADVISOR_E164, <<"+">>)
ADMIN_FORWARD_NUMBER == <<"w","h","a","t","s","a","p","p",":">> \o ADVISOR_E164

\* ------------------------------------------------------------- responses
\* sep.join(parts)
RECURSIVE join(_, _)
join(sep, parts) ==
  IF parts = <<>> THEN <<>>
  ELSE IF Len(parts) = 1 THEN parts[1]
  ELSE parts[1] \o sep \o join(sep, Tail(parts))
PARAGRAPH == <<"\n","\n">>
\* The first value that is not empty: `a or b or c`.
RECURSIVE first_nonempty(_)
first_nonempty(values) ==
  IF values = <<>> THEN <<>>
  ELSE IF Head(values) # <<>> THEN Head(values)
  ELSE first_nonempty(Tail(values))
\* A line that is added only `if val:`.
when(val, line) == IF val # <<>> THEN <<line>> ELSE <<>>

\* xml.sax.saxutils.escape
XML_ENTITIES == <<<<"&", <<"&","a","m","p",";">>>>, <<">", <<"&","g","t",";">>>>, <<"<", <<"&","l","t",";">>>>>>
RECURSIVE xml_escape(_)
xml_escape(s) ==
  With({i \in DOMAIN s : s[i] \in {"&", "<", ">"}}, LAMBDA special :
    IF special = {} THEN s
    ELSE SubSeq(s, 1, Min(special) - 1) \o dict_get(XML_ENTITIES, s[Min(special)], <<>>)
         \o xml_escape(SubSeq(s, Min(special) + 1, Len(s))))
build_twiml(message) ==
  [mimetype |-> "application/xml",
   xml |-> <<"<","?","x","m","l"," ","v","e","r","s","i","o","n","=","'","1",".","0","'"," ","e","n","c","o","d","i","n","g","=","'","U","T","F","-","8","'","?",">","<","R","e","s","p","o","n","s","e",">","<","M","e","s","s","a","g","e",">">>
           \o xml_escape(message) \o <<"<","/","M","e","s","s","a","g","e",">","<","/","R","e","s","p","o","n","s","e",">">>]

price_line(col, precio) ==
  <<"U+1F4B3"," ","*","I","n","s","c","r","i","p","c","i","ó","n"," ","(">> \o remove_all(col, <<"I","n","s","c","r","i","p","c","i","ó","n"," ">>) \o <<")",":","*"," ">> \o precio

\* row.get(a) or row.get(b) ...
modalidad_of(row) == first_nonempty(<<get(row, <<"M","o","d","a","l","i","d","a","d">>), get(row, <<"m","o","d","a","l","i","d","a","d">>)>>)
metodologia_of(row) ==
  first_nonempty(<<get(row, <<"M","e","t","o","d","o","l","o","g","í","a">>), get(row, <<"M","e","t","o","d","o","l","o","g","i","a">>), get(row, <<"m","e","t","o","d","o","l","o","g","í","a">>)>>)
precio_of(row, col) == first_nonempty(<<get(row, col), get(row, REST_COLUMN)>>)
course_card(row, from_number, body_lower) ==
  With(pick_price_column_from_text(body_lower, from_number), LAMBDA price_col :
    join(PARAGRAPH,
      <<<<"H","o","l","a",","," ","g","r","a","c","i","a","s"," ","p","o","r"," ","c","o","n","t","a","c","t","a","r","n","o","s"," ","U+1F64C"," ","S","o","y"," ","*">> \o BOT_NAME \o <<"*"," ","(","a","s","i","s","t","e","n","t","e"," ","d","e"," ">>
          \o BRAND_NAME \o <<")",".">>,
        <<"T","e"," ","p","a","s","o"," ","l","a"," ","i","n","f","o","r","m","a","c","i","ó","n"," ","d","e","l"," ","c","u","r","s","o",":">>>>
      \o when(get(row, <<"C","u","r","s","o">>), <<"U+1F393"," ","*">> \o get(row, <<"C","u","r","s","o">>) \o <<"*">>)
      \o when(get(row, <<"T","e","x","t","o"," ","P","r","i","n","c","i","p","a","l">>), get(row, <<"T","e","x","t","o"," ","P","r","i","n","c","i","p","a","l">>))
      \o when(get(row, <<"F","e","c","h","a"," ","d","e"," ","I","n","i","c","i","o">>), <<"U+1F4C5"," ","*","I","n","i","c","i","o",":","*"," ">> \o get(row, <<"F","e","c","h","a"," ","d","e"," ","I","n","i","c","i","o">>))
      \o when(get(row, <<"F","e","c","h","a","s"," ","d","e"," ","c","l","a","s","e","s">>),
              <<"U+1F5D3","U+FE0F"," ","*","F","e","c","h","a","s"," ","d","e"," ","c","l","a","s","e","s",":","*"," ">> \o get(row, <<"F","e","c","h","a","s"," ","d","e"," ","c","l","a","s","e","s">>))
      \o when(get(row, <<"D","u","r","a","c","i","ó","n">>), <<"U+23F3"," ","*","D","u","r","a","c","i","ó","n",":","*"," ">> \o get(row, <<"D","u","r","a","c","i","ó","n">>))
      \o when(get(row, <<"H","o","r","a","r","i","o","s">>), <<"U+1F552"," ","*","H","o","r","a","r","i","o","s",":","*"," ">> \o get(row, <<"H","o","r","a","r","i","o","s">>))
      \o when(modalidad_of(row), <<"U+1F3A5"," ","*","M","o","d","a","l","i","d","a","d",":","*"," ">> \o modalidad_of(row))
      \o when(metodologia_of(row), <<"U+1F9E9"," ","*","M","e","t","o","d","o","l","o","g","í","a",":","*"," ">> \o metodologia_of(row))
      \o when(precio_of(row, price_col), price_line(price_col, precio_of(row, price_col)))
      \o when(get(row, <<"L","i","n","k"," ","P","D","F">>), <<"U+1F4C4"," ","*","P","D","F"," ","i","n","f","o","r","m","a","t","i","v","o",":","*"," ">> \o get(row, <<"L","i","n","k"," ","P","D","F">>))
      \o <<<<"S","i"," ","d","e","s","e","a","s"," ","*","i","n","s","c","r","i","b","i","r","t","e","*",","," ","d","i","m","e"," ","\"","*","m","e"," ","i","n","t","e","r","e","s","a","*","\""," ","y"," ","t","e"," ","c","o","n","e","c","t","o"," ","c","o","n"," ","u","n"," ","a","s","e","s","o","r"," ","h","u","m","a","n","o"," ","U+1F91D">>>>))
\* A stripped cell under its label, when the cell is not empty.
labelled(label, cell) == when(strip(cell), label \o strip(cell))
brief_parts(titulo, txt, pdf) ==
  when(titulo, <<"U+1F393"," ","*">> \o titulo \o <<"*">>) \o when(txt, txt) \o when(pdf, <<"U+1F4C4"," ">> \o pdf)
course_brief(row) ==
  With(brief_parts(strip(get(row, <<"C","u","r","s","o">>)), strip(get(row, <<"T","e","x","t","o"," ","P","r","i","n","c","i","p","a","l">>)),
                   strip(get(row, <<"L","i","n","k"," ","P","D","F">>))), LAMBDA partes :
    IF join(PARAGRAPH, partes) # <<>> THEN join(PARAGRAPH, partes)
    ELSE <<"N","o"," ","e","n","c","o","n","t","r","é"," ","i","n","f","o","r","m","a","c","i","ó","n"," ","d","e","l"," ","c","u","r","s","o",".">>)

\* The answers the field intents add, in the order of the source.
field_answers(row, intents, body_lower, from_number) ==
  With(pick_price_column_from_text(body_lower, from_number), LAMBDA col :
    (IF ~intents.price THEN <<>>
     ELSE IF precio_of(row, col) # <<>> THEN <<price_line(col, precio_of(row, col))>>
     ELSE <<<<"U+1F4B3"," ","P","a","r","a"," ","d","a","r","t","e"," ","e","l"," ","v","a","l","o","r"," ","e","x","a","c","t","o",","," ","i","n","d","í","c","a","m","e"," ","t","u"," ","p","a","í","s"," ","(","e","j",".",":"," ","\"","p","r","e","c","i","o"," ","B","o","l","i","v","i","a","\"",")",".">>>>)
    \o (IF intents.schedule THEN labelled(<<"U+1F552"," ","*","H","o","r","a","r","i","o","s",":","*"," ">>, get(row, <<"H","o","r","a","r","i","o","s">>)) ELSE <<>>)
    \o (IF ~intents.modality THEN <<>>
        ELSE IF strip(modalidad_of(row)) # <<>>
        THEN labelled(<<"U+1F3A5"," ","*","M","o","d","a","l","i","d","a","d",":","*"," ">>, modalidad_of(row))
        ELSE <<<<"U+1F3A5"," ","M","o","d","a","l","i","d","a","d"," ","e","n"," ","v","i","v","o"," ","p","o","r"," ","v","i","d","e","o","c","o","n","f","e","r","e","n","c","i","a"," ","(","c","l","a","s","e","s"," ","s","í","n","c","r","o","n","a","s",")",".">>>>)
    \o (IF intents.methodology THEN labelled(<<"U+1F9E9"," ","*","M","e","t","o","d","o","l","o","g","í","a",":","*"," ">>, metodologia_of(row))
        ELSE <<>>)
    \o (IF intents.start THEN labelled(<<"U+1F4C5"," ","*","I","n","i","c","i","o",":","*"," ">>, get(row, <<"F","e","c","h","a"," ","d","e"," ","I","n","i","c","i","o">>)) ELSE <<>>)
    \o (IF intents.dates THEN labelled(<<"U+1F5D3","U+FE0F"," ","*","F","e","c","h","a","s"," ","d","e"," ","c","l","a","s","e","s",":","*"," ">>, get(row, <<"F","e","c","h","a","s"," ","d","e"," ","c","l","a","s","e","s">>))
        ELSE <<>>)
    \o (IF intents.duration THEN labelled(<<"U+23F3"," ","*","D","u","r","a","c","i","ó","n",":","*"," ">>, get(row, <<"D","u","r","a","c","i","ó","n">>)) ELSE <<>>)
    \o (IF intents.pdf THEN labelled(<<"U+1F4C4"," ","*","P","D","F"," ","i","n","f","o","r","m","a","t","i","v","o",":","*"," ">>, get(row, <<"L","i","n","k"," ","P","D","F">>)) ELSE <<>>))
answer_for_intents(row, intents, body_lower, from_number) ==
  With(field_answers(row, intents, body_lower, from_number), LAMBDA a1 :
  With(faq_answer_of[row, body_lower], LAMBDA faq_ans :
  With(IF intents.recordings /\ a1 = <<>>
       THEN (IF faq_ans # None THEN <<faq_ans[1]>>
             ELSE <<<<"S","í"," ","U+1F60A"," ","L","a","s"," ","c","l","a","s","e","s"," ","q","u","e","d","a","n"," ","g","r","a","b","a","d","a","s"," ","p","a","r","a"," ","q","u","e"," ","p","u","e","d","a","s"," ","v","e","r","l","a","s"," ","l","u","e","g","o",".">>>>)
       ELSE a1, LAMBDA a2 :
  With(IF intents.faq /\ a2 = <<>> THEN labelled(<<"U+2139","U+FE0F"," ","*","F","A","Q",":","*"," ">>, get(row, <<"F","A","Q">>)) ELSE a2,
       LAMBDA a3 :
  With(IF intents.info /\ a3 = <<>> THEN <<course_card(row, from_number, body_lower)>> ELSE a3,
       LAMBDA answers :
    IF answers = <<>> /\ faq_ans # None THEN faq_ans[1]
    ELSE join(PARAGRAPH, SelectIn(answers, Range(answers) \ {<<>>})))))))

\* ---------------------------------------------------------- the webhook
handoff_reply(sent) ==
  <<"¡","G","e","n","i","a","l","!"," ","U+1F64C"," ">>
  \o (IF sent THEN <<"Y","a"," ","a","v","i","s","é"," ","a"," ","n","u","e","s","t","r","o"," ","a","s","e","s","o","r"," ","U+2705",".">> ELSE <<"T","e"," ","c","o","n","e","c","t","o"," ","c","o","n"," ","n","u","e","s","t","r","o"," ","a","s","e","s","o","r",".">>)
  \o <<" ","E","n"," ","b","r","e","v","e"," ","t","e"," ","e","s","c","r","i","b","i","r","á",".","\n","\n","S","i"," ","p","r","e","f","i","e","r","e","s",","," ","c","o","n","t","á","c","t","a","l","o"," ","a","h","o","r","a",":","\n","U+1F4F2"," ">>
  \o ADVISOR_E164 \o <<" "," ","(">> \o ADVISOR_WA_LINK \o <<")">>
APOLOGY == <<"U","p","s",","," ","t","u","v","e"," ","u","n"," ","d","e","t","a","l","l","e"," ","a","l"," ","p","r","o","c","e","s","a","r"," ","t","u"," ","m","e","n","s","a","j","e","."," ","¿","P","u","e","d","e","s"," ","i","n","t","e","n","t","a","r"," ","d","e"," ","n","u","e","v","o","?"," ","U+1F64F">>
greeting_reply(cursos) ==
  IF cursos # <<>>
  THEN <<"H","o","l","a",","," ","g","r","a","c","i","a","s"," ","p","o","r"," ","c","o","n","t","a","c","t","a","r","n","o","s"," ","U+1F64C"," ","S","o","y"," ","*">> \o BOT_NAME
       \o <<"*",".","\n","I","n","d","í","c","a","m","e"," ","e","l"," ","*","n","o","m","b","r","e"," ","d","e","l"," ","c","u","r","s","o","*"," ","d","e","l"," ","q","u","e"," ","d","e","s","e","a","s"," ","i","n","f","o","r","m","a","c","i","ó","n"," ","y"," ","t","e"," ","p","a","s","o"," ","l","o","s"," ","d","e","t","a","l","l","e","s",".","\n","\n","*","C","u","r","s","o","s",":","*","\n","-"," ">>
       \o join(<<"\n","-"," ">>, cursos)
  ELSE <<"H","o","l","a",","," ","g","r","a","c","i","a","s"," ","p","o","r"," ","c","o","n","t","a","c","t","a","r","n","o","s"," ","U+1F64C"," ","S","o","y"," ","*">> \o BOT_NAME
       \o <<"*","."," ","A","ú","n"," ","n","o"," ","e","n","c","u","e","n","t","r","o"," ","c","u","r","s","o","s"," ","p","u","b","l","i","c","a","d","o","s",".">>
HERE_YOU_ARE == <<"A","q","u","í"," ","t","i","e","n","e","s",":","\n","\n">>
ADVISOR_FALLBACK ==
  <<"P","a","r","a"," ","e","s","a"," ","c","o","n","s","u","l","t","a"," ","p","u","n","t","u","a","l",","," ","t","e"," ","c","o","n","e","c","t","o"," ","c","o","n"," ","n","u","e","s","t","r","o"," ","a","s","e","s","o","r"," ","h","u","m","a","n","o"," ","U+1F60A","\n","\n","U+1F4F2"," ">>
  \o ADVISOR_E164 \o <<" "," ","(">> \o ADVISOR_WA_LINK
  \o <<")","\n","\n","S","i"," ","q","u","i","e","r","e","s",","," ","t","a","m","b","i","é","n"," ","p","u","e","d","o"," ","p","a","s","a","r","t","e"," ","l","a"," ","f","i","c","h","a"," ","c","o","m","p","l","e","t","a"," ","d","e","l"," ","c","u","r","s","o","."," ","E","s","c","r","i","b","e",":"," ","\"","i","n","f","o","\"",".">>
ASK_COURSE ==
  <<"P","a","r","a"," ","d","a","r","t","e"," ","e","s","a"," ","i","n","f","o"," ","a","l"," ","t","o","q","u","e",","," ","i","n","d","í","c","a","m","e"," ","p","r","i","m","e","r","o"," ","e","l"," ","*","n","o","m","b","r","e"," ","d","e","l"," ","c","u","r","s","o","*","."," ","O"," ","s","i"," ","p","r","e","f","i","e","r","e","s",","," ","t","e"," ","c","o","n","e","c","t","o"," ","c","o","n"," ","n","u","e","s","t","r","o"," ","a","s","e","s","o","r"," ","h","u","m","a","n","o"," ","U+1F60A","\n","\n","U+1F4F2"," ">>
  \o ADVISOR_E164 \o <<" "," ","(">> \o ADVISOR_WA_LINK \o <<")">>
fallback_reply(cursos) ==
  IF cursos # <<>>
  THEN <<"P","a","r","a"," ","a","y","u","d","a","r","t","e"," ","m","e","j","o","r",","," ","d","i","m","e"," ","e","l"," ","*","n","o","m","b","r","e"," ","d","e","l"," ","c","u","r","s","o","*",".","\n","\n","*","C","u","r","s","o","s",":","*","\n","-"," ">> \o join(<<"\n","-"," ">>, cursos)
  ELSE <<"P","o","r"," ","a","h","o","r","a"," ","n","o"," ","e","n","c","u","e","n","t","r","o"," ","c","u","r","s","o","s"," ","p","u","b","l","i","c","a","d","o","s"," ","e","n"," ">> \o BRAND_NAME \o <<".">>
SINGLE_COURSE_INFO_WORDS == <<<<"i","n","f","o">>, <<"i","n","f","o","r","m","a","c","i","o","n">>, <<"i","n","f","o","r","m","a","c","i","ó","n">>, <<"i","n","f","o"," ","d","e","l"," ","c","u","r","s","o">>>>
FIELD_INTENTS ==
  {"price", "schedule", "modality", "methodology", "start", "dates", "duration", "pdf",
   "faq", "recordings", "enroll"}
is_greeting(body, body_fold) ==
  \/ body = <<>>
  \/ body_fold \in Range(GREETINGS)
  \/ \E i \in DOMAIN GREETINGS : startswith(body_fold, GREETINGS[i])

reply_for_course_card_first(row_direct, body_fold, from_number) ==
  With(intents_of[body_fold], LAMBDA intents :
  With(answer_for_intents(row_direct, intents, body_fold, from_number), LAMBDA specific :
  With(faq_answer_of[row_direct, body_fold], LAMBDA faq_ans :
    IF intents.info \/ ~(\E k \in FIELD_INTENTS : intents[k])
    THEN (IF faq_ans # None THEN faq_ans[1]
          ELSE course_card(row_direct, from_number, body_fold))
    ELSE IF specific # <<>> THEN HERE_YOU_ARE \o specific
    ELSE IF faq_ans # None THEN faq_ans[1]
    ELSE course_card(row_direct, from_number, body_fold))))
\* The reply of step 2: a course was named in the message.
reply_for_course(row_direct, body_fold, from_number) ==
  With(intents_of[body_fold], LAMBDA intents :
  With(answer_for_intents(row_direct, intents, body_fold, from_number), LAMBDA specific :
  With(faq_answer_of[row_direct, body_fold], LAMBDA faq_ans :
    IF intents.info \/ ~(\E k \in FIELD_INTENTS : intents[k]) THEN course_brief(row_direct)
    ELSE IF specific # <<>> THEN HERE_YOU_ARE \o specific
    ELSE IF faq_ans # None THEN faq_ans[1]
    ELSE course_card(row_direct, from_number, body_fold))))
\* The reply of step 5: no course in the message, one in the session.
reply_for_context(row_ctx, intents, body_fold, from_number) ==
  With(answer_for_intents(row_ctx, intents, body_fold, from_number), LAMBDA specific :
  With(faq_answer_of[row_ctx, body_fold], LAMBDA faq_ans :
    IF specific # <<>> THEN HERE_YOU_ARE \o specific
    ELSE IF faq_ans # None THEN faq_ans[1]
    ELSE IF intents.info THEN course_card(row_ctx, from_number, body_fold)
    ELSE ADVISOR_FALLBACK))

\* ------------------------------------------------------------------------
\* The text functions are evaluated once for every value the model can hand
\* them, and the handlers look the results up.
ALIAS_INDEXES == {_rebuild_alias_index(rows) : rows \in ROW_LISTS}
index_built == [rows \in ROW_LISTS |-> _rebuild_alias_index(rows)]
greeting_of == [b \in TEXTS |-> is_greeting(b, folded[b])]
course_found == [idx \in ALIAS_INDEXES, rows \in ROW_LISTS, b \in TEXTS |-> find_course(idx, rows, b)]
course_reply == [row \in ROWS, b \in FOLDED_TEXTS, f \in SENDERS |-> reply_for_course(row, b, f)]
context_reply ==
  [row \in ROWS, b \in FOLDED_TEXTS, f \in SENDERS |->
     reply_for_context(row, intents_of[b], b, f)]
intent_answers ==
  [row \in ROWS, b \in FOLDED_TEXTS, f \in SENDERS |->
     answer_for_intents(row, intents_of[b], b, f)]
faq_any_of == [rows \in ROW_LISTS, b \in FOLDED_TEXTS |-> answer_from_faq_global(rows, b)]
brief_of == [row \in ROWS |-> course_brief(row)]
titles_of == [rows \in ROW_LISTS |-> list_courses(rows)]

\* ------------------------------------------------------- the sheet cache
EMPTY_CACHE == [rows |-> <<>>, t |-> 0, alias_idx |-> <<>>]
fetch_sheet_rows_forgetting(cache, url_set, source, t, force) ==
  IF ~force /\ cache.rows # <<>> /\ t - cache.t < CACHE_SECONDS
  THEN [cache |-> cache, rows |-> cache.rows, error |-> None, fetched |-> FALSE]
  ELSE IF ~url_set
  THEN [cache |-> [rows |-> <<>>, t |-> t, alias_idx |-> <<>>],
        rows |-> <<>>, error |-> None, fetched |-> FALSE]
  ELSE IF raised_by[source] # None
  THEN [cache |-> [rows |-> <<>>, t |-> cache.t, alias_idx |-> <<>>],
        rows |-> <<>>, error |-> raised_by[source], fetched |-> TRUE]
  ELSE [cache |-> [rows |-> rows_fetched[source], t |-> t,
                   alias_idx |-> index_built[rows_fetched[source]]],
        rows |-> rows_fetched[source], error |-> None, fetched |-> TRUE]
\* fetch_sheet_rows(force): the cache it leaves, the rows it returns, the
\* exception it raises (None: it returns) and whether it sent a GET.
fetch_sheet_rows(cache, url_set, source, t, force) ==
  IF ~force /\ cache.rows # <<>> /\ t - cache.t < CACHE_SECONDS
  THEN [cache |-> cache, rows |-> cache.rows, error |-> None, fetched |-> FALSE]
  ELSE IF ~url_set
  THEN [cache |-> [rows |-> <<>>, t |-> t, alias_idx |-> <<>>],
        rows |-> <<>>, error |-> None, fetched |-> FALSE]
  ELSE IF raised_by[source] # None
  THEN [cache |-> cache, rows |-> <<>>, error |-> raised_by[source], fetched |-> TRUE]
  ELSE [cache |-> [rows |-> rows_fetched[source], t |-> t,
                   alias_idx |-> index_built[rows_fetched[source]]],
        rows |-> rows_fetched[source], error |-> None, fetched |-> TRUE]

\* ------------------------------------------------------------- sessions
set_session_course(sessions, from_number, row, t) ==
  [sessions EXCEPT ![from_number] = Some([course |-> row, t |-> t])]
get_session_course_touching(sessions, from_number, t) ==
  IF sessions[from_number] = None THEN [course |-> None, sessions |-> sessions]
  ELSE IF t - sessions[from_number][1].t > SESSION_TTL
  THEN [course |-> None, sessions |-> [sessions EXCEPT ![from_number] = None]]
  ELSE [course |-> Some(sessions[from_number][1].course),
        sessions |-> [sessions EXCEPT ![from_number][1].t = t]]
\* get_session_course: the course it returns and the store it leaves.
get_session_course(sessions, from_number, t) ==
  IF sessions[from_number] = None THEN [course |-> None, sessions |-> sessions]
  ELSE IF t - sessions[from_number][1].t > SESSION_TTL
  THEN [course |-> None, sessions |-> [sessions EXCEPT ![from_number] = None]]
  ELSE [course |-> Some(sessions[from_number][1].course), sessions |-> sessions]

\* -------------------------------------------------------------- handoff
\* send_admin_forward: what it returns and the POSTs it sent. `delivery` is
\* what the POST ends in when one is sent.
send_admin_forward(user_from, user_body, course_name, configured, delivery) ==
  IF ~configured THEN [sent |-> FALSE, posts |-> <<>>]
  ELSE [sent |-> delivery = "ok",
        posts |-> <<[To |-> ADMIN_FORWARD_NUMBER,
                     Body |-> join(<<"\n">>,
                       <<<<"N","u","e","v","o"," ","l","e","a","d"," ","p","a","r","a"," ">> \o BRAND_NAME, <<"D","e","s","d","e",":"," ">> \o user_from,
                         <<"M","e","n","s","a","j","e",":"," ">> \o user_body>>
                       \o (IF course_name # None /\ course_name[1] # <<>>
                           THEN <<<<"C","u","r","s","o",":"," ">> \o course_name[1]>> ELSE <<>>))]>>]

\* ---------------------------------------------------------- the webhook
reply_without_course_asking(rows, sessions, t, body_fold, from_number) ==
  With(intents_of[body_fold], LAMBDA intents :
  With(get_session_course(sessions, from_number, t), LAMBDA ctx :
    IF ctx.course # None
    THEN [message |-> context_reply[ctx.course[1], body_fold, from_number],
          sessions |-> ctx.sessions]
    ELSE IF \E k \in INTENT_NAMES : intents[k]
    THEN [message |-> ASK_COURSE, sessions |-> ctx.sessions]
    ELSE [message |-> fallback_reply(titles_of[rows]), sessions |-> ctx.sessions]))
\* Steps 3.1 to 7: no course in the message, and no greeting. The message of
\* the reply and the session store it leaves.
reply_without_course(rows, sessions, t, body_fold, from_number) ==
  With(intents_of[body_fold], LAMBDA intents :
  With(Len(rows) = 1 /\ intents.price, LAMBDA single_price :
  With(IF single_price THEN set_session_course(sessions, from_number, rows[1], t)
       ELSE sessions, LAMBDA s1 :
  With(faq_any_of[rows, body_fold], LAMBDA faq_any :
  With(get_session_course(s1, from_number, t), LAMBDA ctx :
    IF Len(rows) = 1 /\ _has_any(body_fold, SINGLE_COURSE_INFO_WORDS)
    THEN [message |-> brief_of[rows[1]],
          sessions |-> set_session_course(sessions, from_number, rows[1], t)]
    ELSE IF single_price /\ intent_answers[rows[1], body_fold, from_number] # <<>>
    THEN [message |-> HERE_YOU_ARE \o intent_answers[rows[1], body_fold, from_number],
          sessions |-> s1]
    ELSE IF faq_any # None
    THEN [message |-> faq_any[1], sessions |-> s1]
    ELSE IF ctx.course # None
    THEN [message |-> context_reply[ctx.course[1], body_fold, from_number],
          sessions |-> ctx.sessions]
    ELSE IF \E k \in INTENT_NAMES : intents[k]
    THEN [message |-> ASK_COURSE, sessions |-> ctx.sessions]
    ELSE [message |-> fallback_reply(titles_of[rows]), sessions |-> ctx.sessions])))))

\* What one call of the handler leaves behind.
outcome(got, found, body, message, s, error, forwards, posts) ==
  [response |-> build_twiml(message), cache |-> got.cache, sessions |-> s,
   error |-> error, fetched |-> got.fetched, forwards |-> forwards, posts |-> posts,
   rows |-> got.rows,
   found |-> IF got.error # None \/ body = <<>> THEN None ELSE found]
\* The enrollment branch: the course named or the course of the session goes
\* into the notification.
enroll_reply_after_course(got, found, sessions, configured, t, from_number, body, delivery) ==
  IF found # None
  THEN outcome(got, found, body, course_reply[found[1], folded[body], from_number],
               set_session_course(sessions, from_number, found[1], t), None, 0, <<>>)
  ELSE With(send_admin_forward(from_number, body, None, configured, delivery), LAMBDA forward :
         outcome(got, found, body, handoff_reply(forward.sent), sessions, None, 1,
                 forward.posts))
enroll_reply(got, found, sessions, configured, t, from_number, body, delivery) ==
  With(get_session_course(sessions, from_number, t), LAMBDA ctx :
  With(IF found # None THEN found ELSE ctx.course, LAMBDA row :
  With(send_admin_forward(from_number, body,
                          IF row # None THEN Some(get(row[1], <<"C","u","r","s","o">>)) ELSE None,
                          configured, delivery), LAMBDA forward :
    outcome(got, found, body, handoff_reply(forward.sent),
            IF found # None THEN sessions ELSE ctx.sessions, None, 1, forward.posts))))
\* The handler once it holds the rows of fetch_sheet_rows (`got`) and what
\* find_course answers for the message (`found`, looked at only where the
\* source calls it).
webhook_reply(got, found, sessions, configured, t, from_number, body, delivery) ==
  IF got.error # None THEN outcome(got, found, body, APOLOGY, sessions, got.error, 0, <<>>)
  ELSE IF enroll_of[folded[body]]
  THEN enroll_reply(got, found, sessions, configured, t, from_number, body, delivery)
  ELSE IF body # <<>> /\ found # None
  THEN outcome(got, found, body, course_reply[found[1], folded[body], from_number],
               set_session_course(sessions, from_number, found[1], t), None, 0, <<>>)
  ELSE IF greeting_of[body]
  THEN outcome(got, found, body, greeting_reply(titles_of[got.rows]), sessions, None, 0, <<>>)
  ELSE With(reply_without_course(got.rows, sessions, t, folded[body], from_number),
            LAMBDA rest :
         outcome(got, found, body, rest.message, rest.sessions, None, 0, <<>>))
whatsapp_webhook_uncaught(cache, sessions, url_set, source, configured, t, from_number, raw_body, delivery) ==
  With(fetch_sheet_rows(cache, url_set, source, t, FALSE), LAMBDA got :
  With(webhook_reply(got, course_found[got.cache.alias_idx, got.rows, stripped[raw_body]],
                     sessions, configured, t, from_number, stripped[raw_body], delivery),
       LAMBDA r :
    IF got.error = None THEN r
    ELSE [r EXCEPT !.response = build_twiml(<<"I","n","t","e","r","n","a","l"," ","S","e","r","v","e","r"," ","E","r","r","o","r">>)]))
\* whatsapp_webhook for one inbound message: the response it returns, the cache
\* and the session store it leaves, the exception its handler caught (None:
\* none), whether it sent a GET to the sheet, how often it called
\* send_admin_forward and the POSTs that sent, the rows it worked with and what
\* find_course answered (None also where it was not called).
whatsapp_webhook(cache, sessions, url_set, source, configured, t, from_number, raw_body, delivery) ==
  With(fetch_sheet_rows(cache, url_set, source, t, FALSE), LAMBDA got :
    webhook_reply(got, course_found[got.cache.alias_idx, got.rows, stripped[raw_body]],
                  sessions, configured, t, from_number, stripped[raw_body], delivery))

\* ------------------------------------------------------- the admin routes
\* health(): the JSON it returns.
health(cache, t) ==
  [status |-> 200, ok |-> TRUE, cached_rows |-> Len(cache.rows),
   cache_age_s |-> IF cache.t # 0 THEN Some(t - cache.t) ELSE None]
\* sheet_refresh(): the exception of fetch_sheet_rows(force=True) leaves the
\* view, and Flask answers 500; else the count is read from the cache.
sheet_refresh(cache, url_set, source, t) ==
  With(fetch_sheet_rows(cache, url_set, source, t, TRUE), LAMBDA got :
    [response |-> IF got.error # None THEN [status |-> 500, raised |-> got.error]
                  ELSE [status |-> 200, ok |-> TRUE, refreshed |-> TRUE,
                        count |-> Len(got.cache.rows)],
     cache |-> got.cache, error |-> got.error, fetched |-> got.fetched])
\* sheet_preview(): fetch_sheet_rows() and the titles, or the error as JSON.
sheet_preview(cache, url_set, source, t) ==
  With(fetch_sheet_rows(cache, url_set, source, t, FALSE), LAMBDA got :
    [response |-> IF got.error # None THEN [status |-> 500, ok |-> FALSE, error |-> got.error]
                  ELSE [status |-> 200, ok |-> TRUE, count |-> Len(got.rows),
                        cursos |-> titles_of[got.rows]],
     cache |-> got.cache, error |-> got.error, fetched |-> got.fetched])

\* ---------------------------------------------------------------- state
VARIABLES
  now,                \* time.time()
  ticks,              \* how often the clock has advanced
  sheet,              \* what a GET of SHEET_CSV_URL would be answered with
  sheet_url_set,      \* SHEET_CSV_URL is not empty
  twilio_configured,  \* the four Twilio settings are not empty
  _cache,             \* the module's _cache
  _sessions,          \* the module's _sessions, None where a sender has no entry
  refreshed_at,       \* history: when a GET of the sheet last ended in a snapshot
  last,               \* the request answered in this step, and how
  threads             \* the requests in flight when requests run concurrently
vars ==
  <<now, ticks, sheet, sheet_url_set, twilio_configured, _cache, _sessions,
    refreshed_at, last, threads>>

\* No request was answered in this step.
NO_REQUEST ==
  [op |-> "none", from |-> <<>>, body |-> <<>>, force |-> FALSE, delivery |-> "none",
   before |-> [cache |-> EMPTY_CACHE, session |-> None, refreshed_at |-> None],
   response |-> None, error |-> None, fetched |-> FALSE, forwards |-> 0, posts |-> <<>>,
   rows |-> <<>>, found |-> None, course |-> None]
\* What the state was when the request came in.
Before(from_number) ==
  [cache |-> _cache,
   session |-> IF from_number \in SENDERS THEN _sessions[from_number] ELSE None,
   refreshed_at |-> refreshed_at]
Refreshed(r) == IF r.fetched /\ r.error = None THEN Some(now) ELSE refreshed_at
NOT_RUNNING ==
  [pc |-> "idle", op |-> "none", from |-> <<>>, body |-> <<>>, t |-> 0, rows |-> <<>>,
   fetched |-> FALSE]

\* The process has been up for longer than both lifetimes: the cache's first
\* timestamp, 0, is stale.
Init ==
  /\ now = CACHE_SECONDS + SESSION_TTL
  /\ ticks = 0
  /\ sheet = "two_courses"
  /\ sheet_url_set \in BOOLEAN
  /\ twilio_configured \in BOOLEAN
  /\ _cache = EMPTY_CACHE
  /\ _sessions = [f \in SENDERS |-> None]
  /\ refreshed_at = None
  /\ last = NO_REQUEST
  /\ threads = [i \in 1..MaxRequests |-> NOT_RUNNING]

\* ------------------------------------------------------ the environment
Tick(d) ==
  /\ last = NO_REQUEST
  /\ ticks < MaxTicks
  /\ now' = now + d
  /\ ticks' = ticks + 1
  /\ UNCHANGED <<sheet, sheet_url_set, twilio_configured, _cache, _sessions, refreshed_at,
                 last, threads>>
SheetChanges(s) ==
  /\ last = NO_REQUEST
  /\ s # sheet
  /\ sheet' = s
  /\ UNCHANGED <<now, ticks, sheet_url_set, twilio_configured, _cache, _sessions,
                 refreshed_at, last, threads>>
\* The answer leaves the server; the next request can come in.
Returned ==
  /\ last # NO_REQUEST
  /\ last' = NO_REQUEST
  /\ UNCHANGED <<now, ticks, sheet, sheet_url_set, twilio_configured, _cache, _sessions,
                 refreshed_at, threads>>

\* ------------------------------------------- the requests, one at a time
Health ==
  /\ last = NO_REQUEST
  /\ last' = [NO_REQUEST EXCEPT !.op = "health", !.before = Before(<<>>),
                                !.response = Some(health(_cache, now))]
  /\ UNCHANGED <<now, ticks, sheet, sheet_url_set, twilio_configured, _cache, _sessions,
                 refreshed_at, threads>>
SheetRefresh ==
  /\ last = NO_REQUEST
  /\ \E r \in {sheet_refresh(_cache, sheet_url_set, sheet, now)} :
       /\ _cache' = r.cache
       /\ refreshed_at' = Refreshed(r)
       /\ last' = [NO_REQUEST EXCEPT !.op = "sheet_refresh", !.force = TRUE,
                                     !.before = Before(<<>>), !.response = Some(r.response),
                                     !.error = r.error, !.fetched = r.fetched]
       /\ UNCHANGED <<now, ticks, sheet, sheet_url_set, twilio_configured, _sessions, threads>>
SheetPreview ==
  /\ last = NO_REQUEST
  /\ \E r \in {sheet_preview(_cache, sheet_url_set, sheet, now)} :
       /\ _cache' = r.cache
       /\ refreshed_at' = Refreshed(r)
       /\ last' = [NO_REQUEST EXCEPT !.op = "sheet_preview", !.before = Before(<<>>),
                                     !.response = Some(r.response),
                                     !.error = r.error, !.fetched = r.fetched]
       /\ UNCHANGED <<now, ticks, sheet, sheet_url_set, twilio_configured, _sessions, threads>>
\* The record of a message the webhook answered with r.
Answered(from_number, raw_body, delivery, before, r) ==
  [NO_REQUEST EXCEPT !.op = "whatsapp", !.from = from_number, !.body = raw_body,
                     !.delivery = delivery, !.before = before,
                     !.response = Some(r.response), !.error = r.error,
                     !.fetched = r.fetched, !.forwards = r.forwards, !.posts = r.posts,
                     !.rows = r.rows, !.found = r.found]
Whatsapp(from_number, raw_body, delivery) ==
  /\ last = NO_REQUEST
  /\ \E r \in {whatsapp_webhook(_cache, _sessions, sheet_url_set, sheet, twilio_configured,
                                    now, from_number, raw_body, delivery)} :
       /\ (delivery = "none") <=> (r.posts = <<>>)
       /\ _cache' = r.cache
       /\ _sessions' = r.sessions
       /\ refreshed_at' = Refreshed(r)
       /\ last' = Answered(from_number, raw_body, delivery, Before(from_number), r)
       /\ UNCHANGED <<now, ticks, sheet, sheet_url_set, twilio_configured, threads>>

DELAYS == {CACHE_SECONDS, SESSION_TTL + 1}
PUBLISHED == {"two_courses", "one_course", "no_course", "unreachable"}
DELIVERIES == {"ok", "error", "none"}
Next ==
  \/ \E d \in DELAYS : Tick(d)
  \/ \E s \in PUBLISHED : SheetChanges(s)
  \/ \E f \in SENDERS, b \in BODIES, d \in DELIVERIES : Whatsapp(f, b, d)
  \/ Returned
Spec == Init /\ [][Next]_vars

\* ---------------------------------------------------- the catalog alone
CATALOG_DELAYS == {1, CACHE_SECONDS - 1, CACHE_SECONDS}
NextCatalog ==
  \/ \E d \in CATALOG_DELAYS : Tick(d)
  \/ \E s \in SOURCE_STATES : SheetChanges(s)
  \/ Health
  \/ SheetRefresh
  \/ SheetPreview
  \/ Returned
SpecCatalog == Init /\ [][NextCatalog]_vars

\* ------------------------------------------------- the session store alone
SetSession(from_number, row) ==
  /\ last = NO_REQUEST
  /\ _sessions' = set_session_course(_sessions, from_number, row, now)
  /\ last' = [NO_REQUEST EXCEPT !.op = "set_session", !.from = from_number,
                                !.before = Before(from_number), !.course = Some(row)]
  /\ UNCHANGED <<now, ticks, sheet, sheet_url_set, twilio_configured, _cache, refreshed_at,
                 threads>>
GetSession(from_number) ==
  /\ last = NO_REQUEST
  /\ \E r \in {get_session_course(_sessions, from_number, now)} :
       /\ _sessions' = r.sessions
       /\ last' = [NO_REQUEST EXCEPT !.op = "get_session", !.from = from_number,
                                     !.before = Before(from_number), !.course = r.course]
       /\ UNCHANGED <<now, ticks, sheet, sheet_url_set, twilio_configured, _cache,
                      refreshed_at, threads>>
SESSION_DELAYS == {1, SESSION_TTL - 1, SESSION_TTL + 1}
NextSessions ==
  \/ \E d \in SESSION_DELAYS : Tick(d)
  \/ \E f \in SENDERS, row \in ROWS : SetSession(f, row)
  \/ \E f \in SENDERS : GetSession(f)
  \/ Returned
SpecSessions == Init /\ [][NextSessions]_vars

\* --------------------------------------------- requests that run together
\* The server runs each request in a thread of its own. A request runs up to
\* the end of the sheet's download in one step; the three stores of
\* fetch_sheet_rows and the rest of the handler are steps of their own, and
\* the steps of different requests interleave.
THREAD_OPS == {"whatsapp", "sheet_refresh"}
\* What the request of a thread ended in, for the record of the step.
Refused(op, from_number, raw_body, got) ==
  IF op = "sheet_refresh"
  THEN [NO_REQUEST EXCEPT !.op = op, !.force = TRUE, !.before = Before(<<>>),
                          !.response = Some([status |-> 500, raised |-> got.error]),
                          !.error = got.error, !.fetched = got.fetched]
  ELSE Answered(from_number, raw_body, "none", Before(from_number),
                webhook_reply(got, None, _sessions, twilio_configured, now, from_number,
                              stripped[raw_body], "none"))
Arrives(i, op, from_number, raw_body) ==
  /\ last = NO_REQUEST
  /\ threads[i].pc = "idle"
  /\ \E got \in {fetch_sheet_rows(_cache, sheet_url_set, sheet, now, op = "sheet_refresh")} :
       /\ IF got.error # None
          THEN /\ last' = Refused(op, from_number, raw_body, got)
               /\ UNCHANGED <<_cache, threads>>
          ELSE /\ threads' = [threads EXCEPT ![i] =
                               [pc |-> IF got.fetched THEN "store_rows" ELSE "handle",
                                op |-> op, from |-> from_number, body |-> raw_body, t |-> now,
                                rows |-> got.rows, fetched |-> got.fetched]]
               /\ _cache' = IF got.fetched THEN _cache ELSE got.cache
               /\ UNCHANGED last
       /\ UNCHANGED <<now, ticks, sheet, sheet_url_set, twilio_configured, _sessions,
                      refreshed_at>>
\* _cache['rows'] = rows
StoreRows(i) ==
  /\ last = NO_REQUEST
  /\ threads[i].pc = "store_rows"
  /\ _cache' = [_cache EXCEPT !.rows = threads[i].rows]
  /\ threads' = [threads EXCEPT ![i].pc = "store_t"]
  /\ UNCHANGED <<now, ticks, sheet, sheet_url_set, twilio_configured, _sessions,
                 refreshed_at, last>>
\* _cache['t'] = now
StoreTime(i) ==
  /\ last = NO_REQUEST
  /\ threads[i].pc = "store_t"
  /\ _cache' = [_cache EXCEPT !.t = threads[i].t]
  /\ threads' = [threads EXCEPT ![i].pc = "store_idx"]
  /\ UNCHANGED <<now, ticks, sheet, sheet_url_set, twilio_configured, _sessions,
                 refreshed_at, last>>
\* _cache['alias_idx'] = _rebuild_alias_index(rows)
StoreIndex(i) ==
  /\ last = NO_REQUEST
  /\ threads[i].pc = "store_idx"
  /\ _cache' = [_cache EXCEPT !.alias_idx = index_built[threads[i].rows]]
  /\ refreshed_at' = Some(threads[i].t)
  /\ threads' = [threads EXCEPT ![i].pc = "handle"]
  /\ UNCHANGED <<now, ticks, sheet, sheet_url_set, twilio_configured, _sessions, last>>
\* The handler after fetch_sheet_rows returned: find_course reads the alias
\* index the cache holds now.
HandleMessage(i, delivery) ==
  /\ last = NO_REQUEST
  /\ threads[i].pc = "handle"
  /\ threads[i].op = "whatsapp"
  /\ \E r \in {webhook_reply([cache |-> _cache, rows |-> threads[i].rows, error |-> None,
                               fetched |-> threads[i].fetched],
                              course_found[_cache.alias_idx, threads[i].rows,
                                           stripped[threads[i].body]],
                              _sessions, twilio_configured, now, threads[i].from,
                              stripped[threads[i].body], delivery)} :
       /\ (delivery = "none") <=> (r.posts = <<>>)
       /\ _sessions' = r.sessions
       /\ last' = Answered(threads[i].from, threads[i].body, delivery,
                           Before(threads[i].from), r)
  /\ threads' = [threads EXCEPT ![i] = NOT_RUNNING]
  /\ UNCHANGED <<now, ticks, sheet, sheet_url_set, twilio_configured, _cache, refreshed_at>>
\* sheet_refresh after fetch_sheet_rows returned: the count is read from the cache.
HandleRefresh(i) ==
  /\ last = NO_REQUEST
  /\ threads[i].pc = "handle"
  /\ threads[i].op = "sheet_refresh"
  /\ last' = [NO_REQUEST EXCEPT !.op = "sheet_refresh", !.force = TRUE,
                                !.before = Before(<<>>),
                                !.response = Some([status |-> 200, ok |-> TRUE,
                                                   refreshed |-> TRUE,
                                                   count |-> Len(_cache.rows)]),
                                !.fetched = threads[i].fetched, !.rows = threads[i].rows]
  /\ threads' = [threads EXCEPT ![i] = NOT_RUNNING]
  /\ UNCHANGED <<now, ticks, sheet, sheet_url_set, twilio_configured, _cache, _sessions,
                 refreshed_at>>
THREAD_SHEETS == {"two_courses", "one_course", "unreachable"}
NextThreads ==
  \/ \E s \in THREAD_SHEETS : SheetChanges(s)
  \/ \E i \in 1..MaxRequests :
       \/ \E f \in SENDERS, b \in THREAD_BODIES : Arrives(i, "whatsapp", f, b)
       \/ Arrives(i, "sheet_refresh", <<>>, <<>>)
       \/ StoreRows(i)
       \/ StoreTime(i)
       \/ StoreIndex(i)
       \/ \E d \in DELIVERIES : HandleMessage(i, d)
       \/ HandleRefresh(i)
  \/ Returned
SpecThreads == Init /\ [][NextThreads]_vars

\* ------------------------------------------------- greetings and courses
\* The webhook with the messages that greet, and one that names a course.
GREETING_BODIES == {<<>>, <<" ","H","o","l","a"," ">>, <<"P","y","t","h","o","n">>}
GREETING_SHEETS == {"two_courses", "hola_course", "no_course"}
NextGreetings ==
  \/ \E d \in {CACHE_SECONDS} : Tick(d)
  \/ \E s \in GREETING_SHEETS : SheetChanges(s)
  \/ \E f \in SENDERS, b \in GREETING_BODIES : Whatsapp(f, b, "none")
  \/ Returned
SpecGreetings == Init /\ [][NextGreetings]_vars

\* ------------------------------------------------ the price column alone
\* pick_price_column_from_text on the folded message, as the webhook calls it.
PRICE_TEXTS ==
  {<<"p","r","e","c","i","o">>, <<"P","r","e","c","i","o"," ","B","o","l","i","v","i","a">>, <<"u","r","u","g","u","a","y"," ","o"," ","a","r","g","e","n","t","i","n","a">>, <<"e","l"," ","r","e","s","t","o">>, <<"p","r","e","c","i","o"," ","M","é","x","i","c","o">>, <<"P","E","R","Ú">>,
   <<"c","o","s","t","a"," ","r","i","c","a","?">>}
PRICE_NUMBERS ==
  {<<"w","h","a","t","s","a","p","p",":","+","5","9","1","7","0">>, <<"w","h","a","t","s","a","p","p",":","+","5","4","9","1","1">>, <<"w","h","a","t","s","a","p","p",":","+","5","9","8","9","9">>, <<"+","5","0","6","8","8">>, <<"w","h","a","t","s","a","p","p",":","+","1","2","0","2","5">>, <<>>}
PickPrice(text, number) ==
  /\ last = NO_REQUEST
  /\ last' = [NO_REQUEST EXCEPT !.op = "pick_price_column", !.body = text, !.from = number,
                                !.course = Some(pick_price_column_from_text(_fold(text), number))]
  /\ UNCHANGED <<now, ticks, sheet, sheet_url_set, twilio_configured, _cache, _sessions,
                 refreshed_at, threads>>
NextPrice ==
  \/ \E text \in PRICE_TEXTS, number \in PRICE_NUMBERS : PickPrice(text, number)
  \/ Returned
SpecPrice == Init /\ [][NextPrice]_vars

\* ------------------------------------------------------------ properties
\* What the step answered, as the text of the TwiML document.
Xml == IF last.response = None THEN <<>> ELSE last.response[1].xml
Replied(message) == last.response = Some(build_twiml(message))
IsMessage == last.op = "whatsapp"
TextOf == stripped[last.body]
FoldOf == folded[stripped[last.body]]

\* C1: with the sheet's address configured, a call of fetch_sheet_rows sends
\* a GET to the sheet if and only if it is forced or no GET ended in a
\* snapshot less than CACHE_SECONDS ago, whatever rows that snapshot holds
\* (none included).
IsCatalogCall == last.op \in {"sheet_refresh", "sheet_preview"}
FreshSnapshot ==
  /\ last.before.refreshed_at # None
  /\ now - last.before.refreshed_at[1] < CACHE_SECONDS
C1_FetchIffForcedOrStale ==
  (IsCatalogCall /\ sheet_url_set) => (last.fetched <=> (last.force \/ ~FreshSnapshot))

\* C2 as stated: every message with an enrollment phrase is answered with
\* the handoff reply after exactly one call of send_admin_forward, whatever
\* the sheet answers.
IsEnrollment == IsMessage /\ enroll_of[FoldOf]
Delivered == twilio_configured /\ last.delivery = "ok"
C2_HandoffAlways ==
  IsEnrollment
    => /\ last.forwards = 1
       /\ Replied(handoff_reply(TRUE)) \/ Replied(handoff_reply(FALSE))
\* C2: a message with an enrollment phrase whose catalog read raised nothing
\* is answered with the handoff reply after exactly one call of
\* send_admin_forward, which sends one POST when Twilio is configured and
\* none otherwise; the reply says the advisor was told exactly when the POST
\* was accepted. Catalog, course and session do not matter.
C2_HandoffWhenCatalogRead ==
  (IsEnrollment /\ last.error = None)
    => /\ last.forwards = 1
       /\ Len(last.posts) = (IF twilio_configured THEN 1 ELSE 0)
       /\ Replied(handoff_reply(Delivered))
\* A notification that failed, for a sender whose message names a course.
C2_HandoffAfterFailedPost ==
  /\ IsEnrollment /\ last.found # None
  /\ twilio_configured /\ last.delivery = "error"
  /\ Len(last.posts) = 1
  /\ Replied(handoff_reply(FALSE))

\* C3: a get for a sender with an entry written at T returns the entry's
\* course and leaves the entry as it is up to T + SESSION_TTL - 1, and returns
\* none and removes the entry from T + SESSION_TTL + 1 on; a get for a sender
\* without an entry returns none; a put stores the course with the time of
\* the put; and an entry changes only in a put for its sender or in the get
\* that removes it, so a removed entry stays absent until the next put.
AgeRead == now - last.before.session[1].t
GetReturns ==
  last.op = "get_session" =>
    IF last.before.session = None
    THEN last.course = None /\ _sessions[last.from] = None
    ELSE /\ AgeRead <= SESSION_TTL - 1
            => /\ last.course = Some(last.before.session[1].course)
               /\ _sessions[last.from] = last.before.session
         /\ AgeRead >= SESSION_TTL + 1
            => last.course = None /\ _sessions[last.from] = None
PutStores ==
  last.op = "set_session" => _sessions[last.from] = Some([course |-> last.course[1], t |-> now])
EntryChangesOnlyBy ==
  \A f \in SENDERS :
    _sessions'[f] # _sessions[f]
      => /\ last'.from = f
         /\ \/ last'.op = "set_session"
            \/ last'.op = "get_session" /\ _sessions'[f] = None
C3_SessionLifetime == [](GetReturns /\ PutStores) /\ [][EntryChangesOnlyBy]_vars
\* The first get after the lifetime: it returns none and removes the entry.
C3_ExpiredEntryRemoved ==
  /\ last.op = "get_session"
  /\ last.before.session # None
  /\ AgeRead >= SESSION_TTL + 1
  /\ last.course = None
  /\ _sessions[last.from] = None

\* C4: when a call of fetch_sheet_rows, forced or not, sends a GET that the
\* sheet answers with no connection, with an error status or without a
\* required header, the caller gets that error (the route answers 500) and the
\* cache holds the rows, the timestamp and the alias index it held before.
RefreshFailed == IsCatalogCall /\ last.fetched /\ raised_by[sheet] # None
C4_FailedRefreshKeepsSnapshot ==
  RefreshFailed
    => /\ last.error = raised_by[sheet]
       /\ last.response[1].status = 500
       /\ _cache = last.before.cache
       /\ refreshed_at = last.before.refreshed_at
\* A sheet that lost a header, read when the cache holds courses: the two
\* courses stay.
C4_SnapshotSurvivesLostHeader ==
  /\ RefreshFailed
  /\ last.error = Some("ValueError")
  /\ Len(last.before.cache.rows) = 2
  /\ _cache = last.before.cache

\* C5: with requests running together, the course that find_course returns
\* for a message is one of the rows fetch_sheet_rows returned to the handler of
\* that message: rows and alias index come from the same refresh.
DictOf(row) == ROW_DICTS[row[1]][row[2]]
C5_FoundAmongRows ==
  (IsMessage /\ last.found # None)
    => \E row \in Range(last.rows) : DictOf(row) = DictOf(last.found[1])

\* C6: every message is answered with one TwiML document that holds one
\* Message element (no markup inside its text); when the catalog read of the handler raised, whichever
\* error it was, the message is the fixed apology, nothing was sent to the
\* advisor and the sender's session entry is the one it was.
TWIML_OPEN == <<"<","?","x","m","l"," ","v","e","r","s","i","o","n","=","'","1",".","0","'"," ","e","n","c","o","d","i","n","g","=","'","U","T","F","-","8","'","?",">","<","R","e","s","p","o","n","s","e",">","<","M","e","s","s","a","g","e",">">>
TWIML_CLOSE == <<"<","/","M","e","s","s","a","g","e",">","<","/","R","e","s","p","o","n","s","e",">">>
OneReply ==
  /\ last.response # None
  /\ last.response[1].mimetype = "application/xml"
  /\ Len(Xml) >= Len(TWIML_OPEN) + Len(TWIML_CLOSE)
  /\ SubSeq(Xml, 1, Len(TWIML_OPEN)) = TWIML_OPEN
  /\ SubSeq(Xml, Len(Xml) - Len(TWIML_CLOSE) + 1, Len(Xml)) = TWIML_CLOSE
  /\ \A i \in (Len(TWIML_OPEN) + 1)..(Len(Xml) - Len(TWIML_CLOSE)) : Xml[i] # "<"
HandlingFailed == last.error # None \/ (last.fetched /\ raised_by[sheet] # None)
C6_OneReplyApologyOnFailure ==
  IsMessage
    => /\ OneReply
       /\ HandlingFailed
          => /\ last.error = raised_by[sheet]
             /\ Replied(APOLOGY)
             /\ last.forwards = 0
             /\ _sessions[last.from] = last.before.session
\* The sheet cannot be reached when a sender with a session writes.
C6_ApologyToKnownSender ==
  /\ IsMessage
  /\ last.error = Some("ConnectionError")
  /\ last.before.session # None
  /\ Replied(APOLOGY)

\* C7: a message that is no enrollment and no greeting, names no course and
\* comes from a sender whose session holds a course that has not expired is
\* answered from that course alone, by the rules for a course named in that
\* message or by those for a course of the session, and the session entry is
\* left as it was.
SessionLive ==
  /\ last.before.session # None
  /\ now - last.before.session[1].t <= SESSION_TTL
NoCourseNamed ==
  /\ IsMessage /\ last.error = None
  /\ ~enroll_of[FoldOf] /\ ~greeting_of[TextOf]
  /\ last.found = None
SessionCourse == last.before.session[1].course
C7_AnsweredFromSessionCourse ==
  (NoCourseNamed /\ SessionLive)
    => /\ \/ Replied(context_reply[SessionCourse, FoldOf, last.from])
          \/ Replied(course_reply[SessionCourse, FoldOf, last.from])
       /\ _sessions[last.from] = last.before.session

\* C8: when the message names a course and one of the intents price,
\* schedule, modality, methodology, start, dates, duration, pdf, faq or
\* recordings is detected, the reply holds, for every detected intent whose
\* cell of the course is not empty, the line of that intent, in that order,
\* also when the intent info is detected with them.
SPECIFIC_INTENTS == FIELD_INTENTS \ {"enroll"}
CourseNamed ==
  /\ IsMessage /\ last.error = None
  /\ ~enroll_of[FoldOf]
  /\ last.found # None
WantedLines(row, intents, col) ==
  (IF intents.price /\ precio_of(row, col) # <<>>
   THEN <<price_line(col, precio_of(row, col))>> ELSE <<>>)
  \o (IF intents.schedule THEN labelled(<<"U+1F552"," ","*","H","o","r","a","r","i","o","s",":","*"," ">>, get(row, <<"H","o","r","a","r","i","o","s">>)) ELSE <<>>)
  \o (IF intents.modality THEN labelled(<<"U+1F3A5"," ","*","M","o","d","a","l","i","d","a","d",":","*"," ">>, modalidad_of(row)) ELSE <<>>)
  \o (IF intents.methodology THEN labelled(<<"U+1F9E9"," ","*","M","e","t","o","d","o","l","o","g","í","a",":","*"," ">>, metodologia_of(row)) ELSE <<>>)
  \o (IF intents.start THEN labelled(<<"U+1F4C5"," ","*","I","n","i","c","i","o",":","*"," ">>, get(row, <<"F","e","c","h","a"," ","d","e"," ","I","n","i","c","i","o">>)) ELSE <<>>)
  \o (IF intents.dates THEN labelled(<<"U+1F5D3","U+FE0F"," ","*","F","e","c","h","a","s"," ","d","e"," ","c","l","a","s","e","s",":","*"," ">>, get(row, <<"F","e","c","h","a","s"," ","d","e"," ","c","l","a","s","e","s">>))
      ELSE <<>>)
  \o (IF intents.duration THEN labelled(<<"U+23F3"," ","*","D","u","r","a","c","i","ó","n",":","*"," ">>, get(row, <<"D","u","r","a","c","i","ó","n">>)) ELSE <<>>)
  \o (IF intents.pdf THEN labelled(<<"U+1F4C4"," ","*","P","D","F"," ","i","n","f","o","r","m","a","t","i","v","o",":","*"," ">>, get(row, <<"L","i","n","k"," ","P","D","F">>)) ELSE <<>>)
  \o (IF intents.faq THEN labelled(<<"U+2139","U+FE0F"," ","*","F","A","Q",":","*"," ">>, get(row, <<"F","A","Q">>)) ELSE <<>>)
Wanted ==
  WantedLines(last.found[1], intents_of[FoldOf],
              pick_price_column_from_text(FoldOf, last.from))
C8_EveryIntentAnswered ==
  (CourseNamed /\ \E k \in SPECIFIC_INTENTS : intents_of[FoldOf][k])
    => In(xml_escape(join(PARAGRAPH, Wanted)), Xml)

\* C9 as stated: a message that names a course, with the intent info alone or
\* with no intent, is answered with the accepted FAQ answer of the
\* course, else with the full card of the course.
GenericMessage == CourseNamed /\ ~(\E k \in SPECIFIC_INTENTS : intents_of[FoldOf][k])
C9_FaqThenCard ==
  GenericMessage
    => IF faq_answer_of[last.found[1], FoldOf] # None
       THEN Replied(faq_answer_of[last.found[1], FoldOf][1])
       ELSE Replied(course_card(last.found[1], last.from, FoldOf))
\* C9: such a message is answered with the brief of the course: its title,
\* its main text and the link of its PDF, each when the cell is filled, and
\* nothing else (no FAQ answer, no date, no schedule, no price); the session
\* of the sender holds the course from then on.
BriefOf(row) ==
  join(PARAGRAPH,
       labelled(<<"U+1F393"," ","*">>, get(row, <<"C","u","r","s","o">>) \o <<"*">>)
       \o labelled(<<>>, get(row, <<"T","e","x","t","o"," ","P","r","i","n","c","i","p","a","l">>))
       \o labelled(<<"U+1F4C4"," ">>, get(row, <<"L","i","n","k"," ","P","D","F">>)))
C9_GenericAnsweredWithBrief ==
  GenericMessage
    => /\ Replied(BriefOf(last.found[1]))
       /\ _sessions[last.from] = Some([course |-> last.found[1], t |-> now])
\* "info excel": the brief of a course whose price cell is filled shows no price.
C9_BriefWithoutPrice ==
  /\ GenericMessage
  /\ intents_of[FoldOf].info
  /\ get(last.found[1], REST_COLUMN) # <<>>
  /\ Replied(BriefOf(last.found[1]))
  /\ ~In(<<"U+1F4B3">>, Xml)

\* C10 as stated: a message that is no enrollment and no greeting, names no
\* course and comes from a sender without a live session is answered with the
\* prompt for the course name when an intent other than info is detected, and
\* else with the list of the titles (or, for info alone, the prompt), whatever
\* the size of the catalog; and the sender has no session afterwards.
NoContext == NoCourseNamed /\ ~SessionLive
AnyIntent == \E k \in INTENT_NAMES : intents_of[FoldOf][k]
AnySpecificIntent == \E k \in SPECIFIC_INTENTS : intents_of[FoldOf][k]
TitleList == fallback_reply(titles_of[last.rows])
C10_PromptOrTitles ==
  NoContext
    => /\ IF AnySpecificIntent THEN Replied(ASK_COURSE)
          ELSE Replied(TitleList) \/ (AnyIntent /\ Replied(ASK_COURSE))
       /\ _sessions[last.from] = None
\* C10: such a message is answered, in this order of precedence: when the
\* catalog has one course and the message holds an info word, with the brief
\* of that course, and when it has one course and price is detected, with the
\* intent answers of that course, the course becoming the sender's session in
\* both cases; else with the first accepted FAQ answer over all courses, the
\* session entry untouched; else with the prompt for the course name when any
\* intent is detected; else with the list of the titles, or the notice of an
\* empty catalog; in the last two cases the sender has no session afterwards.
OnlyCourse == last.rows[1]
C10_ShortcutsThenPromptOrTitles ==
  NoContext
    => IF Len(last.rows) = 1 /\ _has_any(FoldOf, SINGLE_COURSE_INFO_WORDS)
       THEN /\ Replied(BriefOf(OnlyCourse))
            /\ _sessions[last.from] = Some([course |-> OnlyCourse, t |-> now])
       ELSE IF Len(last.rows) = 1 /\ intents_of[FoldOf].price
       THEN /\ Replied(HERE_YOU_ARE \o intent_answers[OnlyCourse, FoldOf, last.from])
            /\ _sessions[last.from] = Some([course |-> OnlyCourse, t |-> now])
       ELSE IF faq_any_of[last.rows, FoldOf] # None
       THEN /\ Replied(faq_any_of[last.rows, FoldOf][1])
            /\ _sessions[last.from] = last.before.session
       ELSE /\ IF AnyIntent THEN Replied(ASK_COURSE) ELSE Replied(TitleList)
            /\ _sessions[last.from] = None
\* "precio" from a sender without a session when the sheet has one course:
\* the price of that course is sent and the sender has a session.
C10_OnlyCoursePriceSent ==
  /\ NoContext
  /\ last.before.session = None
  /\ Len(last.rows) = 1
  /\ intents_of[FoldOf].price
  /\ In(<<"U+1F4B3"," ","*","I","n","s","c","r","i","p","c","i","ó","n"," ","(">>, Xml)
  /\ _sessions[last.from] # None

\* C11: a message whose body is empty or is a greeting, handled with a
\* catalog that is not empty, is answered with every course title of that
\* catalog, each after the bullet marker "- ", whatever the titles are and
\* whatever the sender's session holds.
C11_GreetingListsTitles ==
  (IsMessage /\ greeting_of[TextOf] /\ titles_of[last.rows] # <<>>)
    => \A title \in Range(titles_of[last.rows]) : In(<<"-"," ">> \o xml_escape(title), Xml)

\* C12: the price column is always a column of the sheet; when the folded
\* message contains country words it is the column of one of them, whatever
\* the sender's number; else it is the column of the longest calling code the
\* number starts with, once "whatsapp:" and "+" are removed; else it is the
\* column of the rest of the world.
PRICE_COLUMNS == {h \in Range(EXPECTED_HEADERS) : startswith(h, <<"I","n","s","c","r","i","p","c","i","ó","n"," ">>)}
WordsIn(text) == {e \in Range(COUNTRY_WORD_TO_COL) : In(e[1], text)}
CodesOf(number) ==
  {e \in Range(COUNTRY_PRICE_COLUMN) :
     startswith(SelectIn(number, Range(number) \cap DIGITS), e[1])}
PriceColumnFor(text, number) ==
  IF WordsIn(text) # {} THEN {e[2] : e \in WordsIn(text)}
  ELSE IF CodesOf(number) # {}
  THEN {e[2] : e \in {c \in CodesOf(number) : \A o \in CodesOf(number) : Len(o[1]) <= Len(c[1])}}
  ELSE {REST_COLUMN}
C12_PriceColumn ==
  last.op = "pick_price_column"
    => /\ last.course[1] \in PRICE_COLUMNS
       /\ last.course[1] \in PriceColumnFor(_fold(last.body), last.from)
       /\ Cardinality(PriceColumnFor(_fold(last.body), last.from)) = 1
            \/ Cardinality(WordsIn(_fold(last.body))) > 1
\* The text wins over the number: "Precio Bolivia" from an Argentine number.
C12_TextBeforeNumber ==
  /\ last.op = "pick_price_column"
  /\ In(<<"b","o","l","i","v","i","a">>, _fold(last.body))
  /\ startswith(last.from, <<"w","h","a","t","s","a","p","p",":","+","5","4">>)
  /\ last.course = Some(<<"I","n","s","c","r","i","p","c","i","ó","n"," ","B","o","l","i","v","i","a">>)

\* C13: once the webhook has handled a message whose text resolves to a
\* course, in whichever branch (the enrollment handoff included), the session
\* store holds for the sender exactly that course with the time of this
\* message.
C13_SessionFollowsCourse ==
  (IsMessage /\ last.found # None)
    => _sessions[last.from] = Some([course |-> last.found[1], t |-> now])

\* C14: in every reply that shows an enrollment price, the country printed
\* next to the price names the column the value was read from: under the
\* label of a column the reply shows that column's own value of the course.
\* The courses a reply can be about: the one the message resolved to, else
\* the one of the sender's session and those of the catalog.
AboutRows ==
  IF last.found # None THEN {last.found[1]}
  ELSE Range(last.rows)
       \cup (IF last.before.session = None THEN {} ELSE {last.before.session[1].course})
PriceLabel(col) == xml_escape(<<"U+1F4B3"," ","*","I","n","s","c","r","i","p","c","i","ó","n"," ","(">> \o remove_all(col, <<"I","n","s","c","r","i","p","c","i","ó","n"," ">>) \o <<")",":","*"," ">>)
C14_LabelNamesColumn ==
  IsMessage =>
    \A col \in PRICE_COLUMNS :
      In(PriceLabel(col), Xml)
        => \E row \in AboutRows :
             get(row, col) # <<>> /\ In(PriceLabel(col) \o xml_escape(get(row, col)), Xml)
====
